---- MODULE Spec2Model ----
(***************************************************************************)
(* Transaction normalization layer of the chat analytics assistant         *)
(* (src/unnamed/part_001: normalizeTransactionsFromOutput and helpers).    *)
(*                                                                         *)
(* JavaScript values are tagged records:                                   *)
(*   [t |-> "undefined"]  [t |-> "null"]  [t |-> "bool", v |-> BOOLEAN]    *)
(*   [t |-> "num", v |-> Int]  [t |-> "nan"]  [t |-> "inf"]                *)
(*   [t |-> "str", v |-> sequence of one-character strings]                *)
(*   [t |-> "arr", v |-> sequence of values]                               *)
(*   [t |-> "obj", v |-> function from property names to values]           *)
(* A string is a sequence of characters so that trim() and toLowerCase()   *)
(* are computed, not assumed.  [t |-> "throw"] stands for a raised         *)
(* TypeError.                                                              *)
(*                                                                         *)
(* The chat route (src/app/routes/api.chat.ts) is a second state machine   *)
(* over the same module: the request handler and the model stream, each    *)
(* stepping from one await to the next, with the calls they make on the    *)
(* tracing API kept in order.  The chat panel (src/unnamed/part_005) is a   *)
(* third: the feedback buttons and the submissions in flight.              *)
(***************************************************************************)
EXTENDS Integers, Sequences, FiniteSets, TLC

VARIABLES pc, fn, arg, ret,
          configured,   \* langfuseSpanProcessor is defined
          activeSpan,   \* trace.getActiveSpan() returns a span in this request
          handler,      \* where actionImpl stands
          stream,       \* where the streamText result and its callbacks stand
          trail,        \* tracing calls and the rethrow of this request, in order
          served,       \* chat requests received so far
          panel         \* the chat panel's feedback state and its submissions

callVars == <<pc, fn, arg, ret>>

chatVars == <<configured, activeSpan, handler, stream, trail, served>>

vars == <<callVars, chatVars, panel>>

-----------------------------------------------------------------------------
(* JavaScript values *)

Undef == [t |-> "undefined"]
Null == [t |-> "null"]
NaN == [t |-> "nan"]
Infinity == [t |-> "inf"]
Throw == [t |-> "throw"]
Bool(b) == [t |-> "bool", v |-> b]
Num(n) == [t |-> "num", v |-> n]
Str(s) == [t |-> "str", v |-> s]
Arr(a) == [t |-> "arr", v |-> a]
Obj(o) == [t |-> "obj", v |-> o]

IsThrow(value) == value.t = "throw"

\* typeof value
TypeOf(value) ==
  CASE value.t = "undefined" -> "undefined"
    [] value.t = "bool" -> "boolean"
    [] value.t \in {"num", "nan", "inf"} -> "number"
    [] value.t = "str" -> "string"
    [] OTHER -> "object"

\* Array.isArray(value)
IsArray(value) == value.t = "arr"

\* value is null or undefined: the left operand that ?? and ?. skip
IsNullish(value) == value.t \in {"undefined", "null"}

\* a ?? b
Coalesce(a, b) == IF IsNullish(a) THEN b ELSE a

\* Boolean(value): what !value, find(Boolean) and filter(Boolean) test
Truthy(value) ==
  CASE value.t \in {"undefined", "null", "nan"} -> FALSE
    [] value.t = "bool" -> value.v
    [] value.t = "num" -> value.v # 0
    [] value.t = "str" -> value.v # <<>>
    [] OTHER -> TRUE

\* value[key] on a non-nullish value; the keys read by the normalizer are
\* own properties of plain objects only (an array, a string, a number and a
\* boolean have none of them)
Get(value, key) ==
  IF value.t = "obj" /\ key \in DOMAIN value.v THEN value.v[key] ELSE Undef

\* value?.[key]
OptGet(value, key) == IF IsNullish(value) THEN Undef ELSE Get(value, key)

-----------------------------------------------------------------------------
(* Strings *)

WhiteSpace == {" ", "\t", "\n"}

UpperToLower ==
  [A |-> "a", B |-> "b", C |-> "c", D |-> "d", E |-> "e", F |-> "f", G |-> "g",
   H |-> "h", I |-> "i", J |-> "j", K |-> "k", L |-> "l", M |-> "m", N |-> "n",
   O |-> "o", P |-> "p", Q |-> "q", R |-> "r", S |-> "s", T |-> "t", U |-> "u",
   V |-> "v", W |-> "w", X |-> "x", Y |-> "y", Z |-> "z"]

\* String.prototype.toLowerCase on a character sequence
\* toLowerCase leaving every character as it is
ToLowerCaseIdentity(s) == s

ToLowerCase(s) ==
  [i \in 1..Len(s) |-> IF s[i] \in DOMAIN UpperToLower THEN UpperToLower[s[i]] ELSE s[i]]

RECURSIVE TrimStart(_)
TrimStart(s) ==
  IF s # <<>> /\ Head(s) \in WhiteSpace THEN TrimStart(Tail(s)) ELSE s

RECURSIVE TrimEnd(_)
TrimEnd(s) ==
  IF s # <<>> /\ s[Len(s)] \in WhiteSpace THEN TrimEnd(SubSeq(s, 1, Len(s) - 1)) ELSE s

\* String.prototype.trim
Trim(s) == TrimEnd(TrimStart(s))

\* Array.prototype.join(" ") on a sequence of character sequences
RECURSIVE JoinSpace(_)
JoinSpace(parts) ==
  IF parts = <<>> THEN <<>>
  ELSE IF Len(parts) = 1 THEN parts[1]
  ELSE parts[1] \o <<" ">> \o JoinSpace(Tail(parts))

Digits == <<"0", "1", "2", "3", "4", "5", "6", "7", "8", "9">>

IsDigit(c) == \E d \in 1..10 : Digits[d] = c

DigitVal(c) == (CHOOSE d \in 1..10 : Digits[d] = c) - 1

RECURSIVE DigitsVal(_)
DigitsVal(s) ==
  IF s = <<>> THEN 0 ELSE 10 * DigitsVal(SubSeq(s, 1, Len(s) - 1)) + DigitVal(s[Len(s)])

AllDigits(s) == s # <<>> /\ \A i \in 1..Len(s) : IsDigit(s[i])

\* Number(string) on the integer-literal fragment: surrounding white space is
\* ignored, "" is 0, an optional sign, decimal digits, "Infinity"; anything
\* else is NaN
StringToNumber(s) ==
  LET body == Trim(s) IN
    IF body = <<>> THEN Num(0)
    ELSE IF body = <<"I", "n", "f", "i", "n", "i", "t", "y">> THEN Infinity
    ELSE IF AllDigits(body) THEN Num(DigitsVal(body))
    ELSE IF Head(body) = "-" /\ AllDigits(Tail(body)) THEN Num(0 - DigitsVal(Tail(body)))
    ELSE IF Head(body) = "+" /\ AllDigits(Tail(body)) THEN Num(DigitsVal(Tail(body)))
    ELSE NaN

RECURSIVE NatToString(_)
NatToString(n) ==
  IF n < 10 THEN <<Digits[n + 1]>> ELSE NatToString(n \div 10) \o <<Digits[(n % 10) + 1]>>

\* String(number)
NumberToString(value) ==
  CASE value.t = "nan" -> <<"N", "a", "N">>
    [] value.t = "inf" -> <<"I", "n", "f", "i", "n", "i", "t", "y">>
    [] OTHER -> IF value.v < 0 THEN <<"-">> \o NatToString(0 - value.v)
                ELSE NatToString(value.v)

-----------------------------------------------------------------------------
(* Type guards and scalar extraction *)

\* isRecord without the null test: typeof null is "object"
isRecordTypeofOnly(value) == TypeOf(value) = "object"

isRecord(value) == TypeOf(value) = "object" /\ value.t # "null"

getRecord(value) == IF isRecord(value) THEN value ELSE Undef

asString(value) ==
  IF TypeOf(value) = "string" /\ Len(Trim(value.v)) > 0
    THEN Str(Trim(value.v))
    ELSE Undef

\* asNumber guarded by the truthiness of the value: 0 is lost
asNumberTruthyOnly(value) ==
  IF TypeOf(value) = "number" /\ value.t = "num" /\ value.v # 0 THEN value
  ELSE IF TypeOf(value) = "string" /\ Len(Trim(value.v)) > 0
    THEN LET parsed == StringToNumber(value.v) IN
           IF parsed.t = "num" THEN parsed ELSE Undef
  ELSE Undef

\* asNumber that does not parse strings
asNumberNumbersOnly(value) ==
  IF TypeOf(value) = "number" /\ value.t = "num" THEN value ELSE Undef

\* asNumber without the blank test: Number("") is 0
asNumberBlankIsZero(value) ==
  IF TypeOf(value) = "number" /\ value.t = "num" THEN value
  ELSE IF TypeOf(value) = "string"
    THEN LET parsed == StringToNumber(value.v) IN
           IF parsed.t = "num" THEN parsed ELSE Undef
  ELSE Undef

asNumber(value) ==
  IF TypeOf(value) = "number" /\ value.t = "num" THEN value
  ELSE IF TypeOf(value) = "string" /\ Len(Trim(value.v)) > 0
    THEN LET parsed == StringToNumber(value.v) IN
           IF parsed.t = "num" THEN parsed ELSE Undef
  ELSE Undef

\* toId accepting strings only
toIdStringsOnly(value) == IF TypeOf(value) = "string" THEN value ELSE Undef

toId(value) ==
  IF TypeOf(value) = "string" THEN value
  ELSE IF TypeOf(value) = "number" THEN Str(NumberToString(value))
  ELSE Undef

\* isTransactionPayload recognizing no input as an envelope
isTransactionPayloadNever(value) == Bool(FALSE)

\* isRecord(value) && Array.isArray(value.data); reading value.data of null
\* or undefined raises
isTransactionPayload(value) ==
  IF ~isRecord(value) THEN Bool(FALSE)
  ELSE IF IsNullish(value) THEN Throw
  ELSE Bool(IsArray(Get(value, "data")))

-----------------------------------------------------------------------------
(* Per-entry extraction *)

\* Array.prototype.find, given the indices of the elements that pass the
\* test: the first such element, else undefined
Find(seq, passing) ==
  IF passing = {} THEN Undef
  ELSE seq[CHOOSE i \in passing : \A j \in passing : i <= j]

\* the indices of a sequence whose element is truthy: find(Boolean)
TruthyAt(seq) == {i \in 1..Len(seq) : Truthy(seq[i])}

\* the indices of a sequence whose element is an array
ArrayAt(seq) == {i \in 1..Len(seq) : IsArray(seq[i])}

\* normalizeStatus comparing the token as given, without toLowerCase
normalizeStatusCaseSensitive(value) ==
  IF ~Truthy(value) THEN "other"
  ELSE LET status == value.v IN
    IF status \in {<<"s", "u", "c", "c", "e", "s", "s">>,
                   <<"s", "u", "c", "c", "e", "s", "s", "f", "u", "l">>}
      THEN "success"
    ELSE IF status \in {<<"f", "a", "i", "l", "e", "d">>,
                        <<"f", "a", "i", "l", "u", "r", "e">>,
                        <<"e", "r", "r", "o", "r">>}
      THEN "failed"
    ELSE IF status \in {<<"a", "b", "a", "n", "d", "o", "n", "e", "d">>,
                        <<"c", "a", "n", "c", "e", "l", "l", "e", "d">>,
                        <<"c", "a", "n", "c", "e", "l", "e", "d">>,
                        <<"t", "i", "m", "e", "o", "u", "t">>,
                        <<"t", "i", "m", "e", "d", " ", "o", "u", "t">>,
                        <<"e", "x", "p", "i", "r", "e", "d">>}
      THEN "abandoned"
    ELSE "other"

normalizeStatus(value) ==
  IF ~Truthy(value) THEN "other"
  ELSE LET status == ToLowerCase(value.v) IN
    IF status \in {<<"s", "u", "c", "c", "e", "s", "s">>,
                   <<"s", "u", "c", "c", "e", "s", "s", "f", "u", "l">>}
      THEN "success"
    ELSE IF status \in {<<"f", "a", "i", "l", "e", "d">>,
                        <<"f", "a", "i", "l", "u", "r", "e">>,
                        <<"e", "r", "r", "o", "r">>}
      THEN "failed"
    ELSE IF status \in {<<"a", "b", "a", "n", "d", "o", "n", "e", "d">>,
                        <<"c", "a", "n", "c", "e", "l", "l", "e", "d">>,
                        <<"c", "a", "n", "c", "e", "l", "e", "d">>,
                        <<"t", "i", "m", "e", "o", "u", "t">>,
                        <<"t", "i", "m", "e", "d", " ", "o", "u", "t">>,
                        <<"e", "x", "p", "i", "r", "e", "d">>}
      THEN "abandoned"
    ELSE "other"

\* buildName taking the whole-name fallback before the name parts
buildNameFallbackFirst(firstName, lastName, fallback) ==
  LET parts == SelectSeq(<<firstName, lastName>>, Truthy) IN
    IF ~IsNullish(fallback) /\ Trim(fallback.v) # <<>> THEN Str(Trim(fallback.v))
    ELSE IF Len(parts) > 0
      THEN Str(Trim(JoinSpace([i \in 1..Len(parts) |-> parts[i].v])))
    ELSE Undef

buildName(firstName, lastName, fallback) ==
  LET parts == SelectSeq(<<firstName, lastName>>, Truthy) IN
    IF Len(parts) > 0
      THEN Str(Trim(JoinSpace([i \in 1..Len(parts) |-> parts[i].v])))
    ELSE IF IsNullish(fallback) THEN Undef
    ELSE IF Trim(fallback.v) # <<>> THEN Str(Trim(fallback.v))
    ELSE Undef

\* error.message ?? error.detail ?? error.description of one log.errors
\* element, undefined for an element that is no record
ErrorText(error) ==
  IF isRecord(error)
    THEN asString(Coalesce(Get(error, "message"),
                  Coalesce(Get(error, "detail"), Get(error, "description"))))
    ELSE Undef

IsStringValue(value) == TypeOf(value) = "string"

extractErrorFromLog(log) ==
  LET record == getRecord(log) IN
    IF ~Truthy(record) THEN Undef
    ELSE
      LET errors == Get(record, "errors")
          first == IF IsArray(errors)
                     THEN Find(errors.v, {i \in 1..Len(errors.v) : IsStringValue(errors.v[i])})
                     ELSE Undef
          firstMessage ==
            IF IsArray(errors)
              THEN LET texts == [i \in 1..Len(errors.v) |-> ErrorText(errors.v[i])] IN
                     Find(texts, TruthyAt(texts))
              ELSE Undef
      IN
        IF IsArray(errors) /\ Truthy(first) /\ TypeOf(first) = "string" THEN first
        ELSE IF IsArray(errors) /\ Truthy(firstMessage) THEN firstMessage
        ELSE asString(Get(record, "message"))

\* null for an entry that is no record; reading entry.status of null or
\* undefined raises
normalizeTransaction(entry) ==
  IF ~isRecord(entry) THEN Null
  ELSE IF IsNullish(entry) THEN Throw
  ELSE
    LET rawStatus ==
          asString(Coalesce(Get(entry, "status"),
                   Coalesce(Get(entry, "state"), Get(entry, "current_status"))))
        normalizedStatus == normalizeStatus(rawStatus)
        customer ==
          Coalesce(getRecord(Get(entry, "customer")),
          Coalesce(getRecord(Get(entry, "customer_data")),
                   getRecord(Get(entry, "customerDetails"))))
        authorization == getRecord(Get(entry, "authorization"))
        metadata == getRecord(Get(entry, "metadata"))
        customerName ==
          Coalesce(
            buildName(
              asString(Coalesce(Get(entry, "first_name"), OptGet(customer, "first_name"))),
              asString(Coalesce(Get(entry, "last_name"), OptGet(customer, "last_name"))),
              asString(Coalesce(OptGet(customer, "name"),
                       Coalesce(Get(entry, "customer_name"),
                       Coalesce(Get(entry, "customerName"), Get(entry, "name")))))),
            asString(OptGet(authorization, "account_name")))
        customerEmail ==
          Coalesce(asString(OptGet(customer, "email")),
          Coalesce(asString(Coalesce(Get(entry, "customer_email"),
                            Coalesce(Get(entry, "email"), Get(entry, "customerEmail")))),
          Coalesce(asString(OptGet(authorization, "email")),
                   asString(OptGet(metadata, "email")))))
        gatewayResponse ==
          asString(Coalesce(Get(entry, "gateway_response"), Get(entry, "gatewayResponse")))
        failureReason ==
          Coalesce(gatewayResponse,
          Coalesce(asString(Coalesce(Get(entry, "failure_reason"), Get(entry, "failureReason"))),
          Coalesce(asString(Coalesce(Get(entry, "reason"), Get(entry, "status_reason"))),
                   extractErrorFromLog(Get(entry, "log")))))
        idValue ==
          Coalesce(Get(entry, "id"),
          Coalesce(Get(entry, "reference"),
          Coalesce(Get(entry, "transaction_id"), Get(entry, "transactionId"))))
        amount == asNumber(Coalesce(Get(entry, "amount"), Get(entry, "amount_in_minor")))
        currency == asString(Get(entry, "currency"))
        createdAt == asString(Coalesce(Get(entry, "createdAt"), Get(entry, "created_at")))
    IN
      Obj([id |-> toId(idValue),
           status |-> normalizedStatus,
           rawStatus |-> IF IsNullish(rawStatus) THEN Undef
                         ELSE Str(ToLowerCase(rawStatus.v)),
           customerName |-> customerName,
           customerEmail |-> customerEmail,
           failureReason |-> failureReason,
           gatewayResponse |-> gatewayResponse,
           amount |-> amount,
           currency |-> currency,
           createdAt |-> createdAt])

-----------------------------------------------------------------------------
(* Shape discovery and aggregates *)

RECURSIVE SumFrom(_, _)
SumFrom(transactions, acc) ==
  IF transactions = <<>> THEN acc
  ELSE SumFrom(Tail(transactions),
               acc + Coalesce(Head(transactions).v.amount, Num(0)).v)

\* sumAmounts returning a sum of zero instead of undefined
sumAmountsKeepsZero(transactions) ==
  LET total == SumFrom(transactions, 0) IN
    IF total >= 0 THEN Num(total) ELSE Undef

sumAmounts(transactions) ==
  LET total == SumFrom(transactions, 0) IN
    IF total > 0 THEN Num(total) ELSE Undef

HasCurrency(txn) == Truthy(txn.v.currency)

\* inferCurrency taking the last transaction that has a currency
inferCurrencyLast(transactions) ==
  LET having == {i \in 1..Len(transactions) : HasCurrency(transactions[i])} IN
    IF having = {} THEN Undef
    ELSE transactions[CHOOSE i \in having : \A j \in having : j <= i].v.currency

inferCurrency(transactions) ==
  LET found == Find(transactions,
                    {i \in 1..Len(transactions) : HasCurrency(transactions[i])}) IN
    IF IsNullish(found) THEN Undef ELSE found.v.currency

-----------------------------------------------------------------------------
(* Currency-aware formatting *)

Letters == (DOMAIN UpperToLower) \cup {UpperToLower[c] : c \in DOMAIN UpperToLower}

\* the currency option of Intl.NumberFormat must be three ASCII letters, else
\* the constructor raises a RangeError
IsWellFormedCurrencyCode(code) ==
  Len(code) = 3 /\ \A i \in 1..3 : code[i] \in Letters

\* currencies whose default fraction digits exceed maximumFractionDigits: 2;
\* engines differ on whether the constructor raises for them
ThreeDecimalCodes == {<<"K", "W", "D">>, <<"B", "H", "D">>}

\* whether new Intl.NumberFormat(undefined, {style: "currency", currency,
\* maximumFractionDigits: 2}) may raise: the outcomes an engine can produce
IntlRaises(currency) ==
  IF ~Truthy(currency) THEN {FALSE}
  ELSE IF ~IsWellFormedCurrencyCode(currency.v) THEN {TRUE}
  ELSE IF currency.v \in ThreeDecimalCodes THEN {TRUE, FALSE}
  ELSE {FALSE}

\* value.toLocaleString() for magnitudes below 1000, where no grouping
\* separator appears
LocaleString(value) == NumberToString(value)

ToUpperCase(s) ==
  [i \in 1..Len(s) |->
     IF \E c \in DOMAIN UpperToLower : UpperToLower[c] = s[i]
       THEN CHOOSE c \in DOMAIN UpperToLower : UpperToLower[c] = s[i]
       ELSE s[i]]

\* Intl.NumberFormat(...).format(value): the number, after the ISO code and
\* a no-break space (written "_") for the currency style
IntlFormat(style, currency, value) ==
  IF style = "currency"
    THEN Str(ToUpperCase(currency.v) \o <<"_">> \o LocaleString(value))
    ELSE Str(LocaleString(value))

\* formatCurrencyAmount without the try/catch
formatCurrencyAmountNoCatch(value, currency, intlRaises) ==
  IF Truthy(currency)
    THEN IF intlRaises THEN Throw ELSE IntlFormat("currency", currency, value)
    ELSE IntlFormat("decimal", Undef, value)

formatCurrencyAmount(value, currency, intlRaises) ==
  LET attempt ==
        IF Truthy(currency)
          THEN IF intlRaises THEN Throw ELSE IntlFormat("currency", currency, value)
          ELSE IntlFormat("decimal", Undef, value)
  IN IF ~IsThrow(attempt) THEN attempt
     ELSE IF Truthy(currency) THEN Str(currency.v \o <<" ">> \o LocaleString(value))
     ELSE Str(LocaleString(value))

-----------------------------------------------------------------------------
(* Shape discovery *)

possibleKeys == <<"transactions", "data", "items", "records", "results">>

\* extractTransactionArrays ending the probe at the first key that is present,
\* array or not
extractTransactionArraysFirstPresent(data) ==
  IF ~Truthy(data) THEN <<>>
  ELSE IF IsArray(data) THEN <<data>>
  ELSE IF isRecord(data)
    THEN LET present == SelectSeq([i \in 1..Len(possibleKeys) |-> Get(data, possibleKeys[i])],
                                  LAMBDA value : ~IsNullish(value))
         IN IF present # <<>> /\ IsArray(Head(present)) THEN <<Head(present)>> ELSE <<>>
  ELSE <<>>

extractTransactionArrays(data) ==
  IF ~Truthy(data) THEN <<>>
  ELSE IF IsArray(data) THEN <<data>>
  ELSE IF isRecord(data)
    THEN SelectSeq([i \in 1..Len(possibleKeys) |-> Get(data, possibleKeys[i])], IsArray)
  ELSE <<>>

IsTransaction(txn) == Truthy(txn)

\* NormalizeEntries collecting the transactions in reverse
NormalizeEntriesReversed(entries) ==
  LET mapped == [i \in 1..Len(entries) |->
                   normalizeTransaction(entries[Len(entries) + 1 - i])] IN
    IF \E i \in 1..Len(mapped) : IsThrow(mapped[i]) THEN Throw
    ELSE Arr(SelectSeq(mapped, IsTransaction))

\* entries.map(normalizeTransaction).filter(Boolean); a raise inside the map
\* callback aborts the whole call
NormalizeEntries(entries) ==
  LET mapped == [i \in 1..Len(entries) |-> normalizeTransaction(entries[i])] IN
    IF \E i \in 1..Len(mapped) : IsThrow(mapped[i]) THEN Throw
    ELSE Arr(SelectSeq(mapped, IsTransaction))

\* lines 103-130: the envelope shape
NormalizeEnvelope(data) ==
  LET normalized == NormalizeEntries(Get(data, "data").v) IN
    IF IsThrow(normalized) THEN Throw
    ELSE
      LET transactions == normalized.v
          metaRecord == getRecord(Get(data, "meta"))
          total == Coalesce(asNumber(OptGet(metaRecord, "total")), Num(Len(transactions)))
          totalVolume ==
            asNumber(Coalesce(OptGet(metaRecord, "total_volume"),
                              OptGet(metaRecord, "total_volume_in_minor")))
          currency == asString(OptGet(metaRecord, "currency"))
      IN
        [t |-> "result",
         transactions |-> transactions,
         meta |-> [total |-> total,
                   totalVolume |-> IF ~Truthy(totalVolume) THEN sumAmounts(transactions)
                                   ELSE totalVolume,
                   currency |-> IF ~Truthy(currency) THEN inferCurrency(transactions)
                                ELSE currency,
                   message |-> asString(Get(data, "message")),
                   page |-> asNumber(OptGet(metaRecord, "page")),
                   perPage |-> asNumber(OptGet(metaRecord, "per_page")),
                   pageCount |-> asNumber(OptGet(metaRecord, "page_count"))]]

\* lines 132-155: any other shape
NormalizeOtherShape(data) ==
  LET candidates == extractTransactionArrays(data)
      source == Find(candidates, ArrayAt(candidates))
      normalized == NormalizeEntries(Coalesce(source, Arr(<<>>)).v)
  IN
    IF IsThrow(normalized) THEN Throw
    ELSE
      LET transactions == normalized.v
          record == getRecord(data)
          recordMeta == getRecord(OptGet(record, "meta"))
          total ==
            Coalesce(asNumber(Coalesce(OptGet(recordMeta, "total"), OptGet(record, "total"))),
                     Num(Len(transactions)))
          totalVolume ==
            asNumber(Coalesce(OptGet(recordMeta, "total_volume"),
                              OptGet(record, "total_volume")))
          currency ==
            Coalesce(asString(Coalesce(OptGet(recordMeta, "currency"),
                                       OptGet(record, "currency"))),
                     inferCurrency(transactions))
      IN
        [t |-> "result",
         transactions |-> transactions,
         meta |-> [total |-> total,
                   totalVolume |-> IF ~Truthy(totalVolume) THEN sumAmounts(transactions)
                                   ELSE totalVolume,
                   currency |-> currency,
                   message |-> asString(OptGet(record, "message")),
                   page |-> Undef,
                   perPage |-> Undef,
                   pageCount |-> Undef]]

normalizeTransactionsFromOutput(data) ==
  LET envelope == isTransactionPayload(data) IN
    IF IsThrow(envelope) THEN Throw
    ELSE IF envelope.v THEN NormalizeEnvelope(data)
    ELSE NormalizeOtherShape(data)

-----------------------------------------------------------------------------
(* The copy of the normalizer embedded in the summary component            *)
(* (src/unnamed/part_006).  Its helpers asString, asNumber, getRecord,     *)
(* isRecord, toId, normalizeStatus, buildName, extractErrorFromLog,        *)
(* extractTransactionArrays, sumAmounts, inferCurrency and                 *)
(* isTransactionPayload are the same text as the library's and share its   *)
(* operators.                                                              *)

SummaryNormalizeTransaction(entry) ==
  IF ~isRecord(entry) THEN Null
  ELSE IF IsNullish(entry) THEN Throw
  ELSE
    LET rawStatus ==
          asString(Coalesce(Get(entry, "status"),
                   Coalesce(Get(entry, "state"), Get(entry, "current_status"))))
        normalizedStatus == normalizeStatus(rawStatus)
        customer ==
          Coalesce(getRecord(Get(entry, "customer")),
          Coalesce(getRecord(Get(entry, "customer_data")),
                   getRecord(Get(entry, "customerDetails"))))
        authorization == getRecord(Get(entry, "authorization"))
        metadata == getRecord(Get(entry, "metadata"))
        customerName ==
          Coalesce(
            buildName(
              asString(Coalesce(OptGet(customer, "first_name"), Get(entry, "first_name"))),
              asString(Coalesce(OptGet(customer, "last_name"), Get(entry, "last_name"))),
              asString(Coalesce(OptGet(customer, "name"),
                       Coalesce(Get(entry, "customer_name"),
                       Coalesce(Get(entry, "customerName"), Get(entry, "name")))))),
            asString(OptGet(authorization, "account_name")))
        customerEmail ==
          Coalesce(asString(OptGet(customer, "email")),
          Coalesce(asString(Coalesce(Get(entry, "customer_email"), Get(entry, "email"))),
          Coalesce(asString(OptGet(authorization, "email")),
                   asString(OptGet(metadata, "email")))))
        failureReason ==
          Coalesce(asString(Coalesce(Get(entry, "gateway_response"),
                                     Get(entry, "gatewayResponse"))),
          Coalesce(asString(Coalesce(Get(entry, "failure_reason"), Get(entry, "failureReason"))),
          Coalesce(asString(Coalesce(Get(entry, "reason"), Get(entry, "status_reason"))),
                   extractErrorFromLog(Get(entry, "log")))))
        idValue ==
          Coalesce(Get(entry, "id"),
          Coalesce(Get(entry, "reference"),
          Coalesce(Get(entry, "transaction_id"), Get(entry, "transactionId"))))
        amount == asNumber(Coalesce(Get(entry, "amount"), Get(entry, "amount_in_minor")))
        currency == asString(Get(entry, "currency"))
        createdAt == asString(Coalesce(Get(entry, "createdAt"), Get(entry, "created_at")))
    IN
      Obj([id |-> toId(idValue),
           status |-> normalizedStatus,
           rawStatus |-> IF IsNullish(rawStatus) THEN Undef
                         ELSE Str(ToLowerCase(rawStatus.v)),
           customerName |-> customerName,
           customerEmail |-> customerEmail,
           failureReason |-> failureReason,
           amount |-> amount,
           currency |-> currency,
           createdAt |-> createdAt])

SummaryNormalizeEntries(entries) ==
  LET mapped == [i \in 1..Len(entries) |-> SummaryNormalizeTransaction(entries[i])] IN
    IF \E i \in 1..Len(mapped) : IsThrow(mapped[i]) THEN Throw
    ELSE Arr(SelectSeq(mapped, IsTransaction))

\* part_006 lines 288-309: the envelope shape
SummaryNormalizeEnvelope(data) ==
  LET normalized == SummaryNormalizeEntries(Get(data, "data").v) IN
    IF IsThrow(normalized) THEN Throw
    ELSE
      LET transactions == normalized.v
          metaRecord == getRecord(Get(data, "meta"))
          total == Coalesce(asNumber(OptGet(metaRecord, "total")), Num(Len(transactions)))
          totalVolume == asNumber(OptGet(metaRecord, "total_volume"))
          currency == asString(OptGet(metaRecord, "currency"))
      IN
        [t |-> "result",
         transactions |-> transactions,
         meta |-> [total |-> total,
                   totalVolume |-> IF ~Truthy(totalVolume) THEN sumAmounts(transactions)
                                   ELSE totalVolume,
                   currency |-> IF ~Truthy(currency) THEN inferCurrency(transactions)
                                ELSE currency,
                   message |-> asString(Get(data, "message"))]]

\* part_006 lines 311-333: any other shape
SummaryNormalizeOtherShape(data) ==
  LET candidates == extractTransactionArrays(data)
      source == Find(candidates, ArrayAt(candidates))
      normalized == SummaryNormalizeEntries(Coalesce(source, Arr(<<>>)).v)
  IN
    IF IsThrow(normalized) THEN Throw
    ELSE
      LET transactions == normalized.v
          record == getRecord(data)
          recordMeta == getRecord(OptGet(record, "meta"))
          total ==
            Coalesce(asNumber(Coalesce(OptGet(recordMeta, "total"), OptGet(record, "total"))),
                     Num(Len(transactions)))
          totalVolume ==
            asNumber(Coalesce(OptGet(recordMeta, "total_volume"),
                              OptGet(record, "total_volume")))
          currency ==
            Coalesce(asString(Coalesce(OptGet(recordMeta, "currency"),
                                       OptGet(record, "currency"))),
                     inferCurrency(transactions))
      IN
        [t |-> "result",
         transactions |-> transactions,
         meta |-> [total |-> total,
                   totalVolume |-> IF ~Truthy(totalVolume) THEN sumAmounts(transactions)
                                   ELSE totalVolume,
                   currency |-> currency,
                   message |-> asString(OptGet(record, "message"))]]

SummaryNormalizeTransactionsFromOutput(data) ==
  LET envelope == isTransactionPayload(data) IN
    IF IsThrow(envelope) THEN Throw
    ELSE IF envelope.v THEN SummaryNormalizeEnvelope(data)
    ELSE SummaryNormalizeOtherShape(data)

\* part_006 lines 340-346: the key a transaction is grouped under, undefined
\* when the transaction is skipped; index counts from 0
CustomerKey(txn, index) ==
  LET keySource ==
        Coalesce(Get(txn, "customerEmail"),
        Coalesce(Get(txn, "customerName"),
        Coalesce(Get(txn, "id"), Num(index))))
  IN IF ~Truthy(keySource) THEN Undef
     ELSE IF TypeOf(keySource) = "string" THEN Str(ToLowerCase(keySource.v))
     ELSE Str(NumberToString(keySource))

\* the Map after the first n transactions, its entries in insertion order
RECURSIVE CustomerMap(_, _)
CustomerMap(transactions, n) ==
  IF n = 0 THEN <<>>
  ELSE
    LET map == CustomerMap(transactions, n - 1)
        txn == transactions[n]
        key == CustomerKey(txn, n - 1)
        existing == {g \in 1..Len(map) : map[g].key = key}
    IN IF key = Undef THEN map
       ELSE IF existing # {}
         THEN LET g == CHOOSE g \in existing : TRUE IN
                [map EXCEPT ![g] =
                   [key |-> key,
                    name |-> Coalesce(map[g].name, Get(txn, "customerName")),
                    email |-> Coalesce(map[g].email, Get(txn, "customerEmail")),
                    count |-> map[g].count + 1]]
       ELSE Append(map, [key |-> key,
                         name |-> Get(txn, "customerName"),
                         email |-> Get(txn, "customerEmail"),
                         count |-> 1])

\* Array.prototype.sort((a, b) => b.count - a.count): stable, larger counts
\* first
SortByCount(groups) ==
  LET Before(i, j) ==
        \/ groups[i].count > groups[j].count
        \/ groups[i].count = groups[j].count /\ i < j
      Place(i) == 1 + Cardinality({j \in 1..Len(groups) : Before(j, i)})
  IN [p \in 1..Len(groups) |-> groups[CHOOSE i \in 1..Len(groups) : Place(i) = p]]

\* slice(0, 5)
SliceFive(seq) == SubSeq(seq, 1, IF Len(seq) < 5 THEN Len(seq) ELSE 5)

summarizeCustomers(transactions) ==
  LET map == CustomerMap(transactions, Len(transactions)) IN
    [t |-> "summary",
     map |-> map,
     list |-> SliceFive(SortByCount(map)),
     totalUnique |-> Len(map)]

-----------------------------------------------------------------------------
(* Inputs: the bounded sets the calls draw their arguments from *)

\* longest entry list of a payload
MaxEntries == 2

\* longest log.errors list of an entry
MaxErrors == 2

SeqsUpTo(S, n) == UNION {[1..k -> S] : k \in 0..n}

\* a string literal of an input
Text(s) == Str(s)

cNGN == <<"N", "G", "N">>
cUSD == <<"U", "S", "D">>
cGHS == <<"G", "H", "S">>
cTOP == <<"T", "O", "P">>
cBlank == <<" ", " ">>
cAda == <<"A", "d", "a">>
cAdaPadded == <<" ", "A", "d", "a", " ">>
cObi == <<"O", "b", "i">>
cCy == <<"C", "y">>
cDee == <<"D", "e", "e">>
cEve == <<"E", "v", "e">>
cFox == <<"F", "o", "x">>
cBob == <<"B", "o", "b">>
cGil == <<"G", "i", "l">>
cAcct == <<"A", "c", "c", "t">>
cOk == <<"o", "k">>
cAbc == <<"a", "b", "c">>
cSuccess == <<"s", "u", "c", "c", "e", "s", "s">>
cABANDONED == <<"A", "B", "A", "N", "D", "O", "N", "E", "D">>
cFailedPadded == <<" ", "F", "a", "i", "l", "e", "d", " ">>
cTimedOut == <<"T", "i", "m", "e", "d", " ", "O", "u", "t">>
cExpired == <<"E", "x", "p", "i", "r", "e", "d">>
cPending == <<"p", "e", "n", "d", "i", "n", "g">>
c250 == <<"2", "5", "0">>
c900 == <<"9", "0", "0">>
cCardDeclined == <<"c", "a", "r", "d", " ", "d", "e", "c", "l", "i", "n", "e", "d">>
cDeclined == <<"d", "e", "c", "l", "i", "n", "e", "d">>
cPlain == <<"p", "l", "a", "i", "n">>
cDesc == <<"d", "e", "s", "c">>
cLogMsg == <<"l", "o", "g", "m", "s", "g">>
cGw == <<"g", "w">>
cWhy == <<"w", "h", "y">>

EmptyObject == Obj([k \in {} |-> Undef])

\* entries of every JSON type: scalars, nested arrays, records
EntryPool ==
  {Null, Bool(TRUE), Num(7), Text(cAbc), Arr(<<>>), Arr(<<Num(1)>>), EmptyObject,
   Obj([id |-> Text(<<"1">>), amount |-> Num(500), status |-> Text(cSuccess),
        currency |-> Text(cNGN)]),
   Obj([id |-> Text(<<"2">>), amount |-> Num(300), status |-> Text(cABANDONED),
        currency |-> Text(cNGN)]),
   Obj([id |-> Num(42), amount |-> Text(c250), currency |-> Text(cUSD),
        state |-> Text(cFailedPadded), customer |-> Null, log |-> Num(3),
        authorization |-> Text(cAbc), metadata |-> Arr(<<>>)]),
   Obj([amount |-> Text(cAbc), status |-> Num(1), customer |-> Arr(<<>>),
        log |-> Arr(<<Text(cPlain)>>), currency |-> Text(cBlank)])}

MetaPool ==
  {Undef, Null, Text(cAbc), Arr(<<>>),
   Obj([total |-> Num(9), total_volume |-> Num(700), currency |-> Text(cGHS),
        page |-> Num(2), per_page |-> Num(50), page_count |-> Num(4)]),
   Obj([total |-> Text(cAbc), currency |-> Num(5), page |-> Text(c250)])}

\* inputs that hold no entry list at all
MalformedPayloads ==
  {Undef, Null, Bool(FALSE), Bool(TRUE), Num(0), Num(5), NaN, Text(<<>>), Text(cAbc),
   EmptyObject}

BareArrayPayloads == {Arr(a) : a \in SeqsUpTo(EntryPool, MaxEntries)}

EnvelopePayloads ==
  {Obj([data |-> Arr(a), meta |-> m, message |-> Undef]) :
     a \in SeqsUpTo(EntryPool, MaxEntries), m \in MetaPool}
  \cup {Obj([data |-> Arr(a), meta |-> m, message |-> msg]) :
     a \in SeqsUpTo(EntryPool, 1), m \in MetaPool, msg \in {Text(cOk), Num(1)}}

\* amounts against gateway-reported volumes
AmountEntries ==
  {EmptyObject, Obj([amount |-> Num(0)]), Obj([amount |-> Num(500)]),
   Obj([amount |-> Num(300)]), Obj([amount |-> Num(0 - 300)]),
   Obj([amount |-> Text(c250)]),
   Obj([amount_in_minor |-> Num(40)])}

VolumeMetas ==
  {Obj(m) : m \in [total_volume : {Undef, Null, Num(0), Num(700), Text(c900), Text(cAbc)},
                   total_volume_in_minor : {Undef, Num(0), Num(600)}]}

VolumePayloads ==
  {Obj([data |-> Arr(a), meta |-> m]) :
     a \in SeqsUpTo(AmountEntries, MaxEntries), m \in VolumeMetas \cup {Undef}}
  \cup {Obj([transactions |-> Arr(a), meta |-> m, total_volume |-> v]) :
     a \in SeqsUpTo(AmountEntries, 1),
     m \in {Undef, Obj([total_volume |-> Undef]), Obj([total_volume |-> Num(700)])},
     v \in {Undef, Num(0), Num(800)}}

\* wrapper objects: each candidate key absent, a non-array, or its own array
Tagged(tag) == Arr(<<Obj([id |-> Text(tag)])>>)

WrapperAggregates ==
  {[total |-> Undef, total_volume |-> Undef, currency |-> Undef, message |-> Undef],
   [total |-> Num(99), total_volume |-> Undef, currency |-> Text(cTOP), message |-> Undef],
   [total |-> Undef, total_volume |-> Num(9999), currency |-> Undef, message |-> Text(cOk)],
   [total |-> Num(99), total_volume |-> Num(9999), currency |-> Text(cTOP),
    message |-> Text(cOk)]}

WrapperPayloads ==
  {Obj(w @@ g) : w \in
     [transactions : {Undef, Text(cAbc), Tagged(<<"T">>)},
      data : {Undef, EmptyObject, Tagged(<<"D">>)},
      items : {Undef, Num(3), Tagged(<<"I">>)},
      records : {Undef, Arr(<<Obj([id |-> Text(<<"R">>)]), Obj([id |-> Text(<<"Q">>)])>>)},
      results : {Undef, Null, Tagged(<<"S">>)},
      meta : {Undef, Obj([total |-> Num(7), total_volume |-> Num(700),
                         currency |-> Text(cGHS)])}],
     g \in WrapperAggregates}

\* one entry wrapped in an envelope
Single(entry) == Obj([data |-> Arr(<<entry>>)])

NameEntries ==
  {Obj(e) : e \in
     [first_name : {Undef, Text(cAda), Text(cAdaPadded), Text(cBlank)},
      last_name : {Undef, Text(cObi), Text(<<>>)},
      customer : {Undef, Text(cAbc), Arr(<<>>),
                  Obj([first_name |-> Text(cCy), last_name |-> Text(cDee),
                       name |-> Text(cEve)]),
                  Obj([first_name |-> Text(cCy)]),
                  Obj([name |-> Text(cEve)]),
                  Obj([name |-> Text(cBlank)])},
      customer_data : {Undef, Obj([last_name |-> Text(cFox)])},
      customer_name : {Undef, Text(cBob)},
      name : {Undef, Text(cGil)},
      authorization : {Undef, Obj([account_name |-> Text(cAcct)])}]}

NamePayloads == {Single(e) : e \in NameEntries}

ErrorPool ==
  {Text(cPlain), Text(<<>>), Text(cBlank), Null,
   Obj([message |-> Text(cCardDeclined)]),
   Obj([message |-> Text(cBlank), detail |-> Text(cDeclined)]),
   Obj([description |-> Text(cDesc)])}

LogPool ==
  {Undef, Null, Text(cAbc), Arr(<<>>)}
  \cup {Obj([errors |-> errs, message |-> msg]) :
          errs \in {Undef, Text(cAbc)} \cup {Arr(a) : a \in SeqsUpTo(ErrorPool, MaxErrors)},
          msg \in {Undef, Text(cLogMsg), Text(cBlank)}}

LogEntries ==
  {Obj(e) : e \in
     [log : LogPool,
      gateway_response : {Undef, Text(cGw)},
      reason : {Undef, Text(cWhy)}]}

LogPayloads == {Single(e) : e \in LogEntries}

\* entries carrying the status token under its three names
StatusEntries ==
  {Obj(e) : e \in
     [status : {Undef, Null, Text(<<>>), Text(cBlank), Text(cABANDONED),
                Text(cTimedOut), Num(1)},
      state : {Undef, Text(cFailedPadded), Text(cPending)},
      current_status : {Undef, Text(cExpired), Text(cBlank)}]}

StatusPayloads == {Single(e) : e \in StatusEntries}

Mail(c) == Text(<<c, "@", "x">>)

\* entries carrying an email at each of its places
EmailEntries ==
  {Obj(e) : e \in
     [customer : {Undef, EmptyObject, Obj([email |-> Mail("c")]),
                  Obj([email |-> Text(cBlank)])},
      customer_data : {Undef, Obj([email |-> Mail("d")])},
      customer_email : {Undef, Text(<<>>), Text(<<" ", "e", "@", "x", " ">>)},
      email : {Undef, Mail("f")},
      customerEmail : {Undef, Num(1)},
      authorization : {Undef, Obj([email |-> Mail("g")])},
      metadata : {Undef, Obj([email |-> Mail("h")])}]}

EmailPayloads == {Single(e) : e \in EmailEntries}

\* entries carrying a failure explanation at each of its places
ReasonEntries ==
  {Obj(e) : e \in
     [gateway_response : {Undef, Text(<<>>), Text(cGw)},
      gatewayResponse : {Undef, Text(<<"G", "W">>)},
      failure_reason : {Undef, Text(cBlank), Text(<<"f", "r">>)},
      failureReason : {Undef, Text(<<"f", "R">>)},
      reason : {Undef, Num(1), Text(cWhy)},
      status_reason : {Undef, Text(<<"s", "r">>)},
      log : {Undef, Obj([message |-> Text(cLogMsg)])}]}

ReasonPayloads == {Single(e) : e \in ReasonEntries}

\* entries carrying an identifier of every type under its four names
IdEntries ==
  {Obj(e) : e \in
     [id : {Undef, Null, Text(<<"a", "1">>), Text(<<>>), Num(42), Num(0), Num(0 - 7),
            NaN, Bool(TRUE), EmptyObject, Arr(<<>>)},
      reference : {Undef, Text(<<"r">>)},
      transaction_id : {Undef, Num(9)},
      transactionId : {Undef, Text(<<"t">>)}]}

\* entries carrying an amount of every type under its two names
AmountSourceEntries ==
  {Obj(e) : e \in
     [amount : {Undef, Null, Num(0), Num(500), NaN, Infinity, Text(c250),
                Text(<<" ", "2", "5", "0", " ">>), Text(<<>>), Text(cBlank),
                Text(cAbc), Text(<<"0">>), Text(<<"-", "5">>),
                Text(<<"I", "n", "f", "i", "n", "i", "t", "y">>), Bool(TRUE),
                EmptyObject},
      amount_in_minor : {Undef, Num(40), Text(c900)}]}

IdPayloads == {Single(e) : e \in IdEntries}

AmountSourcePayloads == {Single(e) : e \in AmountSourceEntries}

\* gateway pagination of every type, beside an entry list under data (the
\* envelope), under transactions, or beside no list at all
PageMetas ==
  {Obj(m) : m \in
     [page : {Undef, Null, Num(0), Num(2), Text(c250), Text(cAbc)},
      per_page : {Undef, Num(50), Text(cBlank)},
      page_count : {Undef, Num(4), NaN}]}

PagePayloads ==
  {Obj([data |-> Arr(<<Obj([id |-> Text(<<"1">>)])>>), meta |-> m]) : m \in PageMetas}
  \cup {Obj([transactions |-> Arr(<<Obj([id |-> Text(<<"1">>)])>>), meta |-> m,
             page |-> Num(3), per_page |-> Num(20), page_count |-> Num(6)]) :
          m \in PageMetas}
  \cup {Obj([data |-> Text(cAbc), meta |-> m, perPage |-> Num(20)]) : m \in PageMetas}

\* longer lists of few entries: order, drops and first-wins currency
OrderPool ==
  {Null, Text(cAbc),
   Obj([id |-> Text(<<"1">>), currency |-> Text(cNGN)]),
   Obj([id |-> Text(<<"2">>), currency |-> Text(cNGN)]),
   Obj([id |-> Text(<<"3">>), currency |-> Text(cUSD)]),
   Obj([id |-> Text(<<"4">>)])}

OrderPayloads ==
  {Arr(a) : a \in SeqsUpTo(OrderPool, MaxEntries + 1)}
  \cup {Obj([data |-> Arr(a)]) : a \in SeqsUpTo(OrderPool, MaxEntries + 1)}

\* gateway totals of every type against lists of known length
TotalLists ==
  {<<>>, <<Obj([id |-> Text(<<"1">>)])>>, <<Obj([id |-> Text(<<"1">>)]), Null>>}

TotalPayloads ==
  {Obj([data |-> Arr(a), meta |-> Obj([total |-> total])]) :
     a \in TotalLists,
     total \in {Undef, Null, Num(0), Num(9), Text(c250), Text(cAbc), NaN, Bool(TRUE)}}
  \cup {Obj([transactions |-> Arr(a), meta |-> Obj([total |-> inner]), total |-> outer]) :
     a \in TotalLists,
     inner \in {Undef, Num(0), Num(9), Text(cAbc)},
     outer \in {Undef, Num(0), Num(99), Text(c250)}}

Payloads ==
  OrderPayloads \cup TotalPayloads \cup MalformedPayloads \cup BareArrayPayloads \cup EnvelopePayloads \cup VolumePayloads
  \cup WrapperPayloads \cup NamePayloads \cup LogPayloads \cup StatusPayloads
  \cup EmailPayloads \cup ReasonPayloads \cup IdPayloads \cup AmountSourcePayloads
  \cup PagePayloads

\* amounts and currency arguments of formatCurrencyAmount
FormatValues == {Num(0), Num(5), Num(42), Num(999), Num(0 - 7), NaN}

FormatCurrencies ==
  {Undef, Text(<<>>), Text(cNGN), Text(cUSD), Text(<<"u", "s", "d">>),
   Text(<<"X", "X", "X">>), Text(<<"K", "W", "D">>), Text(<<"U", "S">>),
   Text(<<"U", "S", "D", "X">>), Text(<<"U", "$", "D">>), Text(cBlank),
   Text(<<"1", "2", "3">>)}

MaxBatch == 6

\* a normalized transaction that carries the given identifying fields only
Customer(email, name, id) ==
  Obj([id |-> id, status |-> "success", rawStatus |-> Text(cSuccess),
       customerName |-> name, customerEmail |-> email, failureReason |-> Undef,
       amount |-> Num(500), currency |-> Text(cNGN), createdAt |-> Undef])

\* transactions of an anonymous customer, of one customer under two casings
\* of the email, the second without the name
CustomerPool ==
  {Customer(Undef, Undef, Undef),
   Customer(Mail("c"), Text(cAda), Text(<<"1">>)),
   Customer(Text(<<"C", "@", "X">>), Undef, Text(<<"2">>))}

Batches == SeqsUpTo(CustomerPool, MaxBatch)

\* status words in every letter casing, and strings that are none of them
LowerToUpper ==
  [a |-> "A", b |-> "B", c |-> "C", d |-> "D", e |-> "E", f |-> "F", g |-> "G",
   h |-> "H", i |-> "I", j |-> "J", k |-> "K", l |-> "L", m |-> "M", n |-> "N",
   o |-> "O", p |-> "P", q |-> "Q", r |-> "R", s |-> "S", t |-> "T", u |-> "U",
   v |-> "V", w |-> "W", x |-> "X", y |-> "Y", z |-> "Z"]

UpperOf(c) == IF c \in DOMAIN LowerToUpper THEN LowerToUpper[c] ELSE c

Casings(word) ==
  {[i \in 1..Len(word) |-> IF i \in U THEN UpperOf(word[i]) ELSE word[i]] :
     U \in SUBSET (1..Len(word))}

SuccessWords == {<<"s", "u", "c", "c", "e", "s", "s">>, <<"s", "u", "c", "c", "e", "s", "s", "f", "u", "l">>}

FailedWords == {<<"f", "a", "i", "l", "e", "d">>, <<"f", "a", "i", "l", "u", "r", "e">>, <<"e", "r", "r", "o", "r">>}

AbandonedWords ==
  {<<"a", "b", "a", "n", "d", "o", "n", "e", "d">>,
   <<"c", "a", "n", "c", "e", "l", "l", "e", "d">>,
   <<"c", "a", "n", "c", "e", "l", "e", "d">>,
   <<"t", "i", "m", "e", "o", "u", "t">>,
   <<"t", "i", "m", "e", "d", " ", "o", "u", "t">>,
   <<"e", "x", "p", "i", "r", "e", "d">>}

OtherWords ==
  {<<"p", "e", "n", "d", "i", "n", "g">>,
   <<"s", "u", "c", "c", "e", "s">>,
   <<"s", "u", "c", "c", "e", "s", "s", "s">>,
   <<"t", "i", "m", "e", "d", "o", "u", "t">>,
   <<"t", "i", "m", "e", "d", " ", " ", "o", "u", "t">>,
   <<" ", "s", "u", "c", "c", "e", "s", "s">>,
   <<"f", "a", "i", "l", "e", "d", " ">>,
   <<"0">>,
   <<"r", "e", "v", "e", "r", "s", "e", "d">>}

StatusInputs ==
  {Undef, Null, Text(<<>>)}
  \cup {Text(s) : s \in UNION {Casings(w) :
                     w \in SuccessWords \cup FailedWords \cup AbandonedWords \cup OtherWords}}

-----------------------------------------------------------------------------
(* The calls *)

\* no call of the library is under way
NoCall ==
  /\ pc = "idle"
  /\ fn = "none"
  /\ arg = Undef
  /\ ret = Undef

\* no chat request has been received
NoRequest ==
  /\ activeSpan = FALSE
  /\ handler = "idle"
  /\ stream = "none"
  /\ trail = <<>>
  /\ served = 0

MaxMessages == 2

MaxClicks == 2

Messages == 1..MaxMessages

\* the chat panel as mounted: useState({}) twice, nothing submitted
NoFeedback ==
  panel = [pendingFeedback |-> [m \in Messages |-> Undef],
           feedbackByMessage |-> [m \in Messages |-> "none"],
           call |-> [m \in Messages |-> [at |-> "idle", rating |-> "none", ok |-> FALSE]],
           sent |-> 0,
           clicks |-> 0,
           last |-> Undef,
           console |-> "none"]

\* the library on its own: no chat request, tracing dormant
Init ==
  /\ NoCall
  /\ NoRequest
  /\ NoFeedback
  /\ configured = FALSE

\* a caller passes a tool output or gateway response to the normalizer
CallNormalizeTransactionsFromOutput ==
  /\ pc = "idle"
  /\ \E data \in Payloads :
       /\ arg' = data
       /\ ret' = normalizeTransactionsFromOutput(data)
  /\ fn' = "normalizeTransactionsFromOutput"
  /\ pc' = "done"
  /\ UNCHANGED <<chatVars, panel>>

\* status classification of one status token
CallNormalizeStatus ==
  /\ pc = "idle"
  /\ \E value \in StatusInputs :
       /\ arg' = value
       /\ ret' = [t |-> "status", v |-> normalizeStatus(value)]
  /\ fn' = "normalizeStatus"
  /\ pc' = "done"
  /\ UNCHANGED <<chatVars, panel>>

\* a caller formats an amount; the Intl constructor raises or not as the
\* engine decides for the currency
CallFormatCurrencyAmount ==
  /\ pc = "idle"
  /\ \E value \in FormatValues, currency \in FormatCurrencies :
       \E intlRaises \in IntlRaises(currency) :
         /\ arg' = [t |-> "call", value |-> value, currency |-> currency,
                    intlRaises |-> intlRaises]
         /\ ret' = formatCurrencyAmount(value, currency, intlRaises)
  /\ fn' = "formatCurrencyAmount"
  /\ pc' = "done"
  /\ UNCHANGED <<chatVars, panel>>

\* the result is handed back and the next call may start
Return ==
  /\ pc = "done"
  /\ pc' = "idle"
  /\ fn' = "none"
  /\ arg' = Undef
  /\ ret' = Undef
  /\ UNCHANGED <<chatVars, panel>>

Next ==
  \/ CallNormalizeTransactionsFromOutput
  \/ CallNormalizeStatus
  \/ CallFormatCurrencyAmount
  \/ Return

Spec == Init /\ [][Next]_vars

-----------------------------------------------------------------------------
(* The summary component: its own normalizer copy and the customer groups *)

\* the card normalizes a tool output with the copy it embeds
CallSummaryNormalizeTransactionsFromOutput ==
  /\ pc = "idle"
  /\ \E data \in Payloads :
       /\ arg' = data
       /\ ret' = SummaryNormalizeTransactionsFromOutput(data)
  /\ fn' = "summary.normalizeTransactionsFromOutput"
  /\ pc' = "done"
  /\ UNCHANGED <<chatVars, panel>>

\* the card groups the transactions it shows by customer
CallSummarizeCustomers ==
  /\ pc = "idle"
  /\ \E transactions \in Batches :
       /\ arg' = Arr(transactions)
       /\ ret' = summarizeCustomers(transactions)
  /\ fn' = "summarizeCustomers"
  /\ pc' = "done"
  /\ UNCHANGED <<chatVars, panel>>

NextSummary ==
  \/ CallSummaryNormalizeTransactionsFromOutput
  \/ CallSummarizeCustomers
  \/ Return

SpecSummary == Init /\ [][NextSummary]_vars

-----------------------------------------------------------------------------
(* fetchTransactions (src/app/lib/transactions.server.ts): the call, the   *)
(* network request and the reading of the response body.  arg holds the    *)
(* call as it proceeds (token, requests sent, response), ret its outcome.  *)

cNotConfigured ==
  <<"P", "A", "Y", "S", "T", "A", "C", "K", "_", "J", "W", "T", " ", "i",
    "s", " ", "n", "o", "t", " ", "c", "o", "n", "f", "i", "g", "u", "r",
    "e", "d">>

cUnableToFetch ==
  <<"U", "n", "a", "b", "l", "e", " ", "t", "o", " ", "f", "e", "t", "c",
    "h", " ", "t", "r", "a", "n", "s", "a", "c", "t", "i", "o", "n", "s">>

cFetchFailed == <<"f", "e", "t", "c", "h", " ", "f", "a", "i", "l", "e", "d">>

cObjectObject ==
  <<"[", "o", "b", "j", "e", "c", "t", " ", "O", "b", "j", "e", "c", "t",
    "]">>

\* throw new Error(message)
Error(message) == [t |-> "error", name |-> "Error", message |-> message]

\* the TypeError a failed fetch rejects with
NetworkError == [t |-> "error", name |-> "TypeError", message |-> Str(cFetchFailed)]

\* the issue list a ZodError carries as its message, JSON text never empty
cIssues == <<"[", "i", "s", "s", "u", "e", "s", "]">>

\* the ZodError schema.parse raises
ZodError == [t |-> "error", name |-> "ZodError", message |-> Str(cIssues)]

\* String(value) of a value read from JSON
ToStringValue(value) ==
  CASE value.t = "str" -> value
    [] value.t = "num" -> Str(NumberToString(value))
    [] value.t = "null" -> Str(<<"n", "u", "l", "l">>)
    [] value.t = "bool" -> IF value.v THEN Str(<<"t", "r", "u", "e">>)
                                      ELSE Str(<<"f", "a", "l", "s", "e">>)
    [] value.t = "arr" /\ value.v = <<>> -> Str(<<>>)
    [] value.t = "obj" -> Str(cObjectObject)
    [] OTHER -> Str(<<"u", "n", "d", "e", "f", "i", "n", "e", "d">>)

\* z.string().optional() and the like: the key is absent or passes
Optional(value, passes) == value.t = "undefined" \/ passes

EntryStringKeys ==
  {"reference", "status", "state", "current_status", "createdAt", "created_at",
   "gateway_response", "gatewayResponse", "failure_reason", "failureReason",
   "reason", "status_reason", "customer_name", "customerName", "first_name",
   "last_name", "email", "customer_email", "customerEmail"}

\* paystackCustomerSchema
CustomerAccepted(value) ==
  /\ value.t = "obj"
  /\ \A key \in {"email", "first_name", "last_name", "phone"} :
       Optional(Get(value, key), Get(value, key).t \in {"str", "null"})

\* paystackTransactionEntrySchema
EntryAccepted(value) ==
  /\ value.t = "obj"
  /\ Optional(Get(value, "id"), Get(value, "id").t \in {"str", "num"})
  /\ \A key \in EntryStringKeys : Optional(Get(value, key), Get(value, key).t = "str")
  /\ \A key \in {"amount", "amount_in_minor"} :
       Optional(Get(value, key), Get(value, key).t = "num")
  /\ \A key \in {"customer", "customer_data", "customerDetails"} :
       Optional(Get(value, key), CustomerAccepted(Get(value, key)))
  /\ Optional(Get(value, "authorization"), Get(value, "authorization").t = "obj")

\* paystackMetaSchema
MetaAccepted(value) ==
  /\ value.t = "obj"
  /\ \A key \in {"total", "total_volume", "total_volume_in_minor", "per_page", "page",
                  "page_count"} :
       Optional(Get(value, key), Get(value, key).t = "num")
  /\ Optional(Get(value, "currency"), Get(value, "currency").t = "str")

\* paystackTransactionResponseSchema.parse(json) does not raise
SchemaAccepts(json) ==
  /\ json.t = "obj"
  /\ Optional(Get(json, "status"), Get(json, "status").t = "bool")
  /\ Optional(Get(json, "message"), Get(json, "message").t = "str")
  /\ Get(json, "data").t = "arr"
  /\ \A i \in 1..Len(Get(json, "data").v) : EntryAccepted(Get(json, "data").v[i])
  /\ Optional(Get(json, "meta"), MetaAccepted(Get(json, "meta")))

\* what parse returns: the top-level object is not passthrough, so only its
\* four declared keys are kept
SchemaParsed(json) ==
  Obj([key \in {"status", "message", "data", "meta"} |-> Get(json, key)])

\* the error for a response that is not ok, without the default message
GatewayErrorWithoutDefault(json) ==
  Error(IF json.t = "obj" /\ "message" \in DOMAIN json.v
          THEN ToStringValue(json.v.message) ELSE Undef)

\* lines 63-70: the error raised for a response that is not ok
GatewayError(json) ==
  LET message ==
        IF TypeOf(json) = "object" /\ Truthy(json) /\ json.t = "obj"
             /\ "message" \in DOMAIN json.v /\ json.v.message.t # "undefined"
          THEN ToStringValue(json.v.message)
          ELSE Undef
  IN Error(IF Truthy(message) THEN message ELSE Str(cUnableToFetch))

\* a body is JSON text of a value, or no valid JSON at all
InvalidJson == [t |-> "invalid"]

ErrorBodies ==
  {Obj([message |-> m]) :
     m \in {Text(cDeclined), Text(<<>>), Null, Num(5), Bool(FALSE), Arr(<<>>),
            EmptyObject}}
  \cup {Arr(<<>>), Null, Num(5), Text(cAbc), EmptyObject,
        Obj([data |-> Arr(<<>>), status |-> Bool(TRUE), message |-> Text(cOk),
             extra |-> Num(1)]),
        Obj([data |-> Arr(<<>>), status |-> Text(cOk)]),
        Obj([data |-> Arr(<<Obj([customer |-> Obj([email |-> Null])])>>)]),
        Obj([data |-> Arr(<<Obj([customer |-> Arr(<<>>)])>>)])}

\* JSON has no NaN and no Infinity
RECURSIVE IsJson(_)
IsJson(value) ==
  CASE value.t \in {"nan", "inf"} -> FALSE
    [] value.t = "arr" ->
         \A i \in 1..Len(value.v) : value.v[i].t # "undefined" /\ IsJson(value.v[i])
    [] value.t = "obj" -> \A key \in DOMAIN value.v : IsJson(value.v[key])
    [] OTHER -> TRUE

ResponseBodies ==
  {InvalidJson}
  \cup {body \in ErrorBodies \cup StatusPayloads \cup PagePayloads \cup IdPayloads
                \cup AmountSourcePayloads : IsJson(body)}

Tokens == {Undef, Text(<<>>), Text(<<"j", "w", "t">>)}

\* lines 30-62: the token test and, when it passes, the request
CallFetchTransactions ==
  /\ pc = "idle"
  /\ fn' = "fetchTransactions"
  /\ \E token \in Tokens :
       IF ~Truthy(token)
         THEN /\ arg' = [t |-> "fetch", token |-> token, requests |-> 0,
                         response |-> Undef]
              /\ ret' = Error(Str(cNotConfigured))
              /\ pc' = "done"
         ELSE /\ arg' = [t |-> "fetch", token |-> token, requests |-> 1,
                         response |-> Undef]
              /\ ret' = Undef
              /\ pc' = "fetching"
  /\ UNCHANGED <<chatVars, panel>>

\* await fetch(...): the request fails, or a response arrives
FetchSettles ==
  /\ pc = "fetching"
  /\ \/ /\ ret' = NetworkError
        /\ pc' = "done"
        /\ arg' = arg
     \/ /\ \E ok \in BOOLEAN, body \in ResponseBodies :
             arg' = [arg EXCEPT !.response = [t |-> "response", ok |-> ok, body |-> body]]
        /\ ret' = ret
        /\ pc' = "reading"
  /\ UNCHANGED <<fn, chatVars, panel>>

\* lines 63-77: response.json().catch(() => ({})), then the error for a
\* response that is not ok, else parse and normalize
ResponseOutcome(response) ==
  LET json == IF response.body = InvalidJson THEN EmptyObject ELSE response.body
  IN IF ~response.ok THEN GatewayError(json)
     ELSE IF ~SchemaAccepts(json) THEN ZodError
     ELSE [t |-> "fetched",
           raw |-> SchemaParsed(json),
           normalized |-> normalizeTransactionsFromOutput(SchemaParsed(json))]

\* the body is read and the call ends
BodySettles ==
  /\ pc = "reading"
  /\ ret' = ResponseOutcome(arg.response)
  /\ pc' = "done"
  /\ UNCHANGED <<fn, arg, chatVars, panel>>

NextFetch ==
  \/ CallFetchTransactions
  \/ FetchSettles
  \/ BodySettles
  \/ Return

SpecFetch == Init /\ [][NextFetch]_vars

-----------------------------------------------------------------------------
(* The transactions page: loader (src/unnamed/part_003 lines 44-115) with  *)
(* its date helpers and buildAssistantContext.  Dates are the strings the  *)
(* request carries; a Date is its time value counted in days, the server   *)
(* clock read in UTC.                                                      *)

ROWS_PER_PAGE == 25

DEFAULT_RANGE_DAYS == 30

\* DATE_PATTERN.test(s): /^\d{4}-\d{2}-\d{2}$/
DATE_PATTERN(s) ==
  /\ Len(s) = 10
  /\ s[5] = "-" /\ s[8] = "-"
  /\ \A i \in {1, 2, 3, 4, 6, 7, 9, 10} : IsDigit(s[i])

statusOptions == {<<"a", "l", "l">>, <<"s", "u", "c", "c", "e", "s", "s">>, <<"f", "a", "i", "l", "e", "d">>, <<"a", "b", "a", "n", "d", "o", "n", "e", "d">>, <<"o", "t", "h", "e", "r">>}

IsLeapYear(y) == y % 4 = 0 /\ (y % 100 # 0 \/ y % 400 = 0)

MonthLength(y, m) ==
  IF m = 2 THEN (IF IsLeapYear(y) THEN 29 ELSE 28)
  ELSE IF m \in {4, 6, 9, 11} THEN 30 ELSE 31

RECURSIVE DaysBeforeMonth(_, _)
DaysBeforeMonth(y, m) ==
  IF m = 1 THEN 0 ELSE DaysBeforeMonth(y, m - 1) + MonthLength(y, m - 1)

\* days from 0000-01-01 to the first day of year y
DaysBeforeYear(y) == 365 * y + (y + 3) \div 4 - (y + 99) \div 100 + (y + 399) \div 400

\* new Date("YYYY-MM-DD") on the server's engine: a month outside 1..12 or
\* a day outside 1..31 is an Invalid Date, a day past the end of its month
\* runs over into the next month
NewDate(s) ==
  LET y == DigitsVal(SubSeq(s, 1, 4))
      m == DigitsVal(SubSeq(s, 6, 7))
      d == DigitsVal(SubSeq(s, 9, 10))
  IN IF m \in 1..12 /\ d \in 1..31
       THEN Num(DaysBeforeYear(y) + DaysBeforeMonth(y, m) + d)
       ELSE NaN

\* padStart(width, "0") of a decimal
RECURSIVE PadStart(_, _)
PadStart(s, width) == IF Len(s) >= width THEN s ELSE PadStart(<<"0">> \o s, width)

\* formatDateInput: date.toISOString().slice(0, 10), a RangeError on an
\* Invalid Date
formatDateInput(date) ==
  IF date.t # "num" THEN Throw
  ELSE
    LET y == CHOOSE y \in (date.v \div 366)..(date.v \div 365) :
               DaysBeforeYear(y) < date.v /\ date.v <= DaysBeforeYear(y + 1)
        inYear == date.v - DaysBeforeYear(y)
        m == CHOOSE m \in 1..12 :
               /\ DaysBeforeMonth(y, m) < inYear
               /\ inYear <= DaysBeforeMonth(y, m) + MonthLength(y, m)
        d == inYear - DaysBeforeMonth(y, m)
    IN Str(PadStart(NatToString(y), 4) \o <<"-">> \o PadStart(NatToString(m), 2)
             \o <<"-">> \o PadStart(NatToString(d), 2))

\* a > b on two Dates: false when either is an Invalid Date
DateAfter(a, b) == a.t = "num" /\ b.t = "num" /\ a.v > b.v

\* getDefaultDateRange: the last DEFAULT_RANGE_DAYS days, today included
getDefaultDateRange(now) ==
  [from |-> formatDateInput(Num(now.v - (DEFAULT_RANGE_DAYS - 1))),
   to |-> formatDateInput(now)]

ensureChronologicalOrder(filters) ==
  LET fromDate == NewDate(filters.from.v)
      toDate == NewDate(filters.to.v)
  IN IF DateAfter(fromDate, toDate)
       THEN [filters EXCEPT !.from = formatDateInput(toDate),
                            !.to = formatDateInput(fromDate)]
       ELSE filters

\* z.coerce.number().int().min(1) accepts Number(value)
PageAccepted(value) ==
  StringToNumber(value.v).t = "num" /\ StringToNumber(value.v).v >= 1

\* filtersSchema.safeParse(raw).success
FiltersAccepted(raw) ==
  /\ raw.from.t = "undefined" \/ DATE_PATTERN(raw.from.v)
  /\ raw.to.t = "undefined" \/ DATE_PATTERN(raw.to.v)
  /\ raw.status.t = "undefined" \/ raw.status.v \in statusOptions
  /\ raw.page.t = "undefined" \/ PageAccepted(raw.page)

\* lines 45-64: the filters of a request
RequestFilters(raw, now) ==
  LET success == FiltersAccepted(raw)
      fallbackRange == getDefaultDateRange(now)
      page == IF raw.page.t = "undefined" THEN Undef ELSE StringToNumber(raw.page.v)
  IN ensureChronologicalOrder(
       [from |-> IF success /\ Truthy(raw.from) THEN raw.from ELSE fallbackRange.from,
        to |-> IF success /\ Truthy(raw.to) THEN raw.to ELSE fallbackRange.to,
        status |-> IF success /\ Truthy(raw.status) THEN raw.status ELSE Str(<<"a", "l", "l">>),
        page |-> IF success /\ Truthy(page) THEN page ELSE Num(1)])

cLatestFetchFailed == <<"L", "a", "t", "e", "s", "t", " ", "f", "e", "t", "c", "h", " ", "f", "a", "i", "l", "e", "d", ":", " ">>

cUnknown == <<"U", "n", "k", "n", "o", "w", "n">>

cNa == <<"n", "/", "a">>

\* the em dash of an empty cell, written "--"
cDash == <<"-", "-">>

\* transactions.filter((txn) => txn.status === status).length
CountStatus(transactions, status) ==
  Cardinality({i \in 1..Len(transactions) : Get(transactions[i], "status") = status})

\* the table row of a transaction; the amount is shown in major units
TableRow(txn, meta, intlRaises) ==
  [id |-> Get(txn, "id"),
   values |->
     [id |-> Coalesce(Get(txn, "id"), Str(cNa)),
      customer |-> Coalesce(Get(txn, "customerName"), Str(cUnknown)),
      email |-> Coalesce(Get(txn, "customerEmail"), Str(cUnknown)),
      amount |-> IF TypeOf(Get(txn, "amount")) = "number"
                   THEN formatCurrencyAmount(
                          IF Get(txn, "amount").t = "num"
                            THEN Num(Get(txn, "amount").v \div 100)
                            ELSE Get(txn, "amount"),
                          Coalesce(Get(txn, "currency"), meta.currency), intlRaises)
                   ELSE Str(cDash),
      status |-> Get(txn, "status"),
      createdAt |-> Coalesce(Get(txn, "createdAt"), Str(<<>>)),
      gatewayResponse |-> Coalesce(Get(txn, "gatewayResponse"),
                          Coalesce(Get(txn, "failureReason"), Str(cDash)))],
   note |-> Get(txn, "failureReason")]

\* the summary sentence of buildAssistantContext
Summary(transactions, meta, filters, error) ==
  IF Truthy(error) THEN Str(cLatestFetchFailed \o error.v)
  ELSE Str(<<"S", "h", "o", "w", "i", "n", "g", " ">> \o NatToString(Len(transactions)) \o <<" ", "o", "f", " ">>
             \o NumberToString(Coalesce(meta.total, Num(Len(transactions))))
             \o <<" ", "t", "r", "a", "n", "s", "a", "c", "t", "i", "o", "n", "s", " ", "f", "r", "o", "m", " ">> \o filters.from.v \o <<" ", "t", "o", " ">> \o filters.to.v
             \o <<" ", "(", "s", "t", "a", "t", "u", "s", ":", " ">> \o filters.status.v \o <<")", ".">>)

buildAssistantContext(data, filters, error, now, intlRaises) ==
  [timestamp |-> formatDateInput(now),
   summary |-> Summary(data.transactions, data.meta, filters, error),
   filters |-> [from |-> filters.from, to |-> filters.to, status |-> filters.status,
                page |-> Str(NumberToString(filters.page))],
   stats |-> [visibleRows |-> Num(Len(data.transactions)),
              totalTransactions |-> Coalesce(data.meta.total, Num(Len(data.transactions))),
              totalVolumeMinor |-> Coalesce(data.meta.totalVolume, Num(0)),
              successCount |-> Num(CountStatus(data.transactions, "success")),
              failedCount |-> Num(CountStatus(data.transactions, "failed")),
              abandonedCount |-> Num(CountStatus(data.transactions, "abandoned"))],
   table |-> [visibleCount |-> Num(Len(data.transactions)),
              rows |-> [i \in 1..(IF Len(data.transactions) < ROWS_PER_PAGE
                                    THEN Len(data.transactions) ELSE ROWS_PER_PAGE) |->
                          TableRow(data.transactions[i], data.meta, intlRaises)]],
   highlights |-> IF Truthy(error) THEN Arr(<<error>>) ELSE Undef]

\* meta: {}
EmptyMeta ==
  [total |-> Undef, totalVolume |-> Undef, currency |-> Undef, message |-> Undef,
   page |-> Undef, perPage |-> Undef, pageCount |-> Undef]

\* lines 75-113: what the loader returns once fetchTransactions has settled
LoaderResponse(filters, outcome, now, intlRaises) ==
  IF outcome.t = "fetched"
    THEN [t |-> "response", status |-> 200,
          transactions |-> outcome.normalized.transactions,
          meta |-> outcome.normalized.meta,
          filters |-> filters,
          perPage |-> ROWS_PER_PAGE,
          error |-> Null,
          assistantContext |->
            buildAssistantContext(outcome.normalized, filters, Undef, now, intlRaises)]
    ELSE
      LET message == IF outcome.t = "error" THEN outcome.message
                     ELSE Str(cUnableToFetch)
      IN [t |-> "response", status |-> 500,
          transactions |-> <<>>,
          meta |-> EmptyMeta,
          filters |-> filters,
          perPage |-> ROWS_PER_PAGE,
          error |-> message,
          assistantContext |->
            buildAssistantContext([transactions |-> <<>>, meta |-> EmptyMeta],
                                  filters, message, now, intlRaises)]

DateParams ==
  {Undef, Text(<<>>), Text(<<"2", "0", "2", "4", "-", "3", "-", "1">>), Text(<<"2", "0", "2", "4", "-", "0", "1", "-", "3", "1">>), Text(<<"2", "0", "2", "4", "-", "0", "2", "-", "2", "9">>), Text(<<"2", "0", "2", "4", "-", "0", "2", "-", "3", "0">>),
   Text(<<"2", "0", "2", "4", "-", "0", "3", "-", "0", "1">>), Text(<<"2", "0", "2", "4", "-", "1", "2", "-", "3", "2">>), Text(<<"2", "0", "2", "4", "-", "1", "3", "-", "0", "1">>)}

StatusParams == {Undef, Text(<<"f", "a", "i", "l", "e", "d">>), Text(<<"b", "o", "g", "u", "s">>)}

PageParams == {Undef, Text(<<"2">>), Text(<<"0">>)}

\* the server clock: 2024-03-15
Clock == {NewDate(<<"2", "0", "2", "4", "-", "0", "3", "-", "1", "5">>)}

\* response bodies of the gateway that the page is loaded with
LoaderBodies ==
  {InvalidJson, EmptyObject, Obj([message |-> Text(cDeclined)]),
   Obj([data |-> Arr(<<>>)]),
   Obj([data |-> Arr(<<Obj([id |-> Num(7), status |-> Text(cSuccess),
                            amount |-> Num(500), currency |-> Text(cNGN)]),
                       Obj([status |-> Text(cFailedPadded),
                            gateway_response |-> Text(cDeclined)])>>),
        meta |-> Obj([total |-> Num(40)])])}

\* everything a call of fetchTransactions can end with
FetchTransactionsOutcomes ==
  {Error(Str(cNotConfigured)), NetworkError}
  \cup {ResponseOutcome([t |-> "response", ok |-> ok, body |-> body]) :
          ok \in BOOLEAN, body \in LoaderBodies}

\* lines 45-73: a request arrives; its filters are worked out and
\* fetchTransactions is called with them
CallLoader ==
  /\ pc = "idle"
  /\ fn' = "loader"
  /\ \E from \in DateParams, to \in DateParams, status \in StatusParams,
        page \in PageParams, now \in Clock :
       LET raw == [from |-> from, to |-> to, status |-> status, page |-> page]
           filters == RequestFilters(raw, now)
       IN arg' = [t |-> "loader", raw |-> raw, now |-> now, filters |-> filters,
                  call |-> [startDate |-> filters.from, endDate |-> filters.to,
                            perPage |-> ROWS_PER_PAGE, page |-> filters.page,
                            status |-> IF filters.status = Str(<<"a", "l", "l">>) THEN Undef
                                       ELSE filters.status],
                  outcome |-> Undef]
  /\ ret' = Undef
  /\ pc' = "loading"
  /\ UNCHANGED <<chatVars, panel>>

\* lines 66-114: await fetchTransactions(...) settles and the loader returns
LoaderSettles ==
  /\ pc = "loading"
  /\ \E outcome \in FetchTransactionsOutcomes :
       /\ arg' = [arg EXCEPT !.outcome = outcome]
       /\ \E intlRaises \in
               UNION {IntlRaises(Coalesce(Get(outcome.normalized.transactions[i], "currency"),
                                          outcome.normalized.meta.currency)) :
                        i \in (IF outcome.t = "fetched"
                                 THEN 1..Len(outcome.normalized.transactions) ELSE {})}
               \cup {FALSE} :
            ret' = LoaderResponse(arg.filters, outcome, arg.now, intlRaises)
  /\ pc' = "done"
  /\ UNCHANGED <<fn, chatVars, panel>>

NextLoader ==
  \/ CallLoader
  \/ LoaderSettles
  \/ Return

SpecLoader == Init /\ [][NextLoader]_vars

-----------------------------------------------------------------------------
(* Helpfulness feedback in the chat panel: submitHelpfulness               *)
(* (src/unnamed/part_005 lines 206-247)                                    *)

TraceIds == {Undef, Text(<<>>), Text(<<"t", "1">>)}

\* a finally block that leaves pendingFeedback as it is
FinallyKeepsPending(pending, m) == pending

\* finally: setPendingFeedback((prev) => ({ ...prev, [messageId]: false }))
Finally(pending, m) == [pending EXCEPT ![m] = Bool(FALSE)]

\* a feedback button of message m is clicked (the buttons are disabled while
\* the message is pending): without a trace id the call returns at once,
\* otherwise it marks the message pending and sends the request
Submit ==
  /\ panel.clicks < MaxClicks
  /\ \E m \in Messages, traceId \in TraceIds, rating \in {"up", "down"} :
       /\ panel.pendingFeedback[m] # Bool(TRUE)
       /\ LET clicked == [panel EXCEPT !.clicks = @ + 1,
                                        !.last = [message |-> m, traceId |-> traceId,
                                                  rating |-> rating]]
          IN panel' =
               IF ~Truthy(traceId) THEN [clicked EXCEPT !.console = "warn: no trace id"]
               ELSE [clicked EXCEPT !.pendingFeedback[m] = Bool(TRUE),
                                    !.sent = @ + 1,
                                    !.call[m] = [at |-> "fetching", rating |-> rating,
                                                 ok |-> FALSE]]
  /\ UNCHANGED <<callVars, chatVars>>

\* the call is over: the end of try or catch, which logs the error, then
\* finally
Finished(m, recorded, logged) ==
  [panel EXCEPT !.feedbackByMessage[m] = recorded,
                !.console = logged,
                !.pendingFeedback = Finally(panel.pendingFeedback, m),
                !.call[m] = [at |-> "idle", rating |-> "none", ok |-> FALSE]]

\* await fetch(...) rejects: catch logs, finally runs
FetchRejects(m) ==
  /\ panel.call[m].at = "fetching"
  /\ panel' = Finished(m, panel.feedbackByMessage[m], "error: fetch rejected")
  /\ UNCHANGED <<callVars, chatVars>>

\* await fetch(...) resolves with a response
ResponseArrives(m) ==
  /\ panel.call[m].at = "fetching"
  /\ \E ok \in BOOLEAN :
       panel' = [panel EXCEPT !.call[m].at = "responded", !.call[m].ok = ok]
  /\ UNCHANGED <<callVars, chatVars>>

\* the code after the await: an ok response records the rating and the call
\* ends; any other response has its text read first
ResponseHandled(m) ==
  /\ panel.call[m].at = "responded"
  /\ panel' = IF panel.call[m].ok THEN Finished(m, panel.call[m].rating, panel.console)
               ELSE [panel EXCEPT !.call[m].at = "reading"]
  /\ UNCHANGED <<callVars, chatVars>>

\* await response.text() settles: the error is thrown or the rejection
\* propagates, catch logs, finally runs
TextSettles(m) ==
  /\ panel.call[m].at = "reading"
  /\ panel' = Finished(m, panel.feedbackByMessage[m], "error: response not ok")
  /\ UNCHANGED <<callVars, chatVars>>

NextPanel ==
  \/ Submit
  \/ \E m \in Messages : FetchRejects(m)
  \/ \E m \in Messages : ResponseArrives(m)
  \/ \E m \in Messages : ResponseHandled(m)
  \/ \E m \in Messages : TextSettles(m)

\* a promise the panel awaits settles, and the code after an await runs
Settles(m) ==
  FetchRejects(m) \/ ResponseArrives(m) \/ ResponseHandled(m) \/ TextSettles(m)

SpecPanel ==
  Init /\ [][NextPanel]_vars /\ \A m \in Messages : WF_vars(Settles(m))

-----------------------------------------------------------------------------
(* The chat request: actionImpl, its catch block and the stream callbacks *)

MaxRequests == 2

\* the module is loaded with or without the LANGFUSE_* settings
InitChat ==
  /\ NoCall
  /\ NoRequest
  /\ NoFeedback
  /\ configured \in BOOLEAN

\* trace.getActiveSpan()?.end()
EndActiveSpan(who) == IF activeSpan THEN <<<<who, "end">>>> ELSE <<>>

\* if (langfuseSpanProcessor) await langfuseSpanProcessor.forceFlush():
\* the call is made in the same turn as the end of the span
ForceFlush(who) == IF configured THEN <<<<who, "flush">>>> ELSE <<>>

\* a catch block that rethrows right after ending the span
CatchWithoutFlush ==
  /\ trail' = trail \o EndActiveSpan("catch") \o <<<<"catch", "rethrow">>>>
  /\ handler' = "thrown"

\* the catch block of actionImpl up to its await, or to its throw when no
\* processor is configured
Catch ==
  /\ trail' = trail \o EndActiveSpan("catch") \o ForceFlush("catch")
               \o (IF configured THEN <<>> ELSE <<<<"catch", "rethrow">>>>)
  /\ handler' = IF configured THEN "catchFlushing" ELSE "thrown"

\* a chat request arrives once the previous one and its stream are over
ReceiveRequest ==
  /\ handler \in {"idle", "returned", "thrown"}
  /\ stream \in {"none", "finished", "errored"}
  /\ served < MaxRequests
  /\ served' = served + 1
  /\ activeSpan' \in BOOLEAN
  /\ handler' = "try"
  /\ stream' = "none"
  /\ trail' = <<>>
  /\ UNCHANGED <<configured, callVars, panel>>

\* request.json(), langfuse.prompt.get() or streamText() throws
TryThrows ==
  /\ handler = "try"
  /\ Catch
  /\ UNCHANGED <<configured, activeSpan, stream, served, callVars, panel>>

\* streamText() returns the running stream and the response is returned
StreamText ==
  /\ handler = "try"
  /\ handler' = "returned"
  /\ stream' = "running"
  /\ UNCHANGED <<configured, activeSpan, trail, served, callVars, panel>>

\* streamText() returns the running stream, then toUIMessageStreamResponse()
\* throws
RespondThrows ==
  /\ handler = "try"
  /\ stream' = "running"
  /\ Catch
  /\ UNCHANGED <<configured, activeSpan, served, callVars, panel>>

\* forceFlush() of the catch block settles: throw error follows when it
\* resolved, its own rejection leaves the handler when it did not
CatchFlushSettles ==
  /\ handler = "catchFlushing"
  /\ \E resolved \in BOOLEAN :
       trail' = trail \o (IF resolved
                        THEN <<<<"catch", "flushed">>, <<"catch", "rethrow">>>>
                        ELSE <<<<"catch", "flushRejected">>>>)
  /\ handler' = "thrown"
  /\ UNCHANGED <<configured, activeSpan, stream, served, callVars, panel>>

\* the model stream finishes: onFinish runs up to its await, or to its end
\* when no processor is configured
StreamFinishes ==
  /\ stream = "running"
  /\ trail' = trail \o EndActiveSpan("onFinish") \o ForceFlush("onFinish")
  /\ stream' = IF configured THEN "onFinishFlushing" ELSE "finished"
  /\ UNCHANGED <<configured, activeSpan, handler, served, callVars, panel>>

\* forceFlush() of onFinish settles
OnFinishFlushSettles ==
  /\ stream = "onFinishFlushing"
  /\ \E resolved \in BOOLEAN :
       trail' = trail \o <<<<"onFinish", IF resolved THEN "flushed" ELSE "flushRejected">>>>
  /\ stream' = "finished"
  /\ UNCHANGED <<configured, activeSpan, handler, served, callVars, panel>>

\* the model stream fails: onError runs up to its await, or to its end when
\* no processor is configured
StreamErrors ==
  /\ stream = "running"
  /\ trail' = trail \o EndActiveSpan("onError") \o ForceFlush("onError")
  /\ stream' = IF configured THEN "onErrorFlushing" ELSE "errored"
  /\ UNCHANGED <<configured, activeSpan, handler, served, callVars, panel>>

\* forceFlush() of onError settles
OnErrorFlushSettles ==
  /\ stream = "onErrorFlushing"
  /\ \E resolved \in BOOLEAN :
       trail' = trail \o <<<<"onError", IF resolved THEN "flushed" ELSE "flushRejected">>>>
  /\ stream' = "errored"
  /\ UNCHANGED <<configured, activeSpan, handler, served, callVars, panel>>

NextChat ==
  \/ ReceiveRequest
  \/ TryThrows
  \/ StreamText
  \/ RespondThrows
  \/ CatchFlushSettles
  \/ StreamFinishes
  \/ OnFinishFlushSettles
  \/ StreamErrors
  \/ OnErrorFlushSettles

SpecChat == InitChat /\ [][NextChat]_vars

-----------------------------------------------------------------------------
(* Properties *)

Normalized == pc = "done" /\ fn = "normalizeTransactionsFromOutput"

Classified == pc = "done" /\ fn = "normalizeStatus"

StatusNames == {"success", "failed", "abandoned", "other"}

TransactionFields ==
  {"id", "status", "rawStatus", "customerName", "customerEmail", "failureReason",
   "gatewayResponse", "amount", "currency", "createdAt"}

MetaFields == {"total", "totalVolume", "currency", "message", "page", "perPage", "pageCount"}

\* an object whose data field is an array
IsEnvelopeInput(value) ==
  /\ value.t = "obj"
  /\ "data" \in DOMAIN value.v
  /\ value.v.data.t = "arr"

\* a key-value mapping: neither a scalar, nor null, nor an array
IsMapping(value) == value.t = "obj"

\* field of a mapping, undefined when the value is no mapping or lacks it
Field(value, key) ==
  IF IsMapping(value) /\ key \in DOMAIN value.v THEN value.v[key] ELSE Undef

Absent(value) == value.t \in {"undefined", "null"}

WellFormedResult(r) ==
  /\ r.t = "result"
  /\ \A i \in 1..Len(r.transactions) :
       /\ r.transactions[i].t = "obj"
       /\ DOMAIN r.transactions[i].v = TransactionFields
       /\ r.transactions[i].v.status \in StatusNames
  /\ DOMAIN r.meta = MetaFields

\* C1: normalizeTransactionsFromOutput never throws: for every input value
\* it returns a sequence of transactions (possibly empty) and one meta object.
C1_NeverThrows == Normalized => WellFormedResult(ret)

\* a call on null, and a call whose entries include null and sub-objects of
\* the wrong type, both returned a result
C1_Witness ==
  /\ Normalized
  /\ IsEnvelopeInput(arg)
  /\ \E i \in 1..Len(arg.v.data.v) : arg.v.data.v[i] = Null
  /\ \E i \in 1..Len(arg.v.data.v) : Field(arg.v.data.v[i], "log") = Num(3)
  /\ ret.t = "result"
  /\ Len(ret.transactions) = 1

\* C2: for an envelope input the number of output transactions equals the
\* number of elements of data that are key-value mappings; null, booleans,
\* numbers, strings and nested arrays produce no transaction.
C2_CountEqualsMappings ==
  (Normalized /\ IsEnvelopeInput(arg)) =>
    /\ ret.t = "result"
    /\ Len(ret.transactions) =
         Cardinality({i \in 1..Len(arg.v.data.v) : IsMapping(arg.v.data.v[i])})

SameWord(s, word) ==
  /\ Len(s) = Len(word)
  /\ \A i \in 1..Len(word) : s[i] \in {word[i], UpperOf(word[i])}

ExpectedStatus(value) ==
  IF value.t # "str" THEN "other"
  ELSE IF \E w \in SuccessWords : SameWord(value.v, w) THEN "success"
  ELSE IF \E w \in FailedWords : SameWord(value.v, w) THEN "failed"
  ELSE IF \E w \in AbandonedWords : SameWord(value.v, w) THEN "abandoned"
  ELSE "other"

\* C3: status classification is total and case-insensitive: every status
\* string, in any letter casing, lands in the bucket of its word, and every
\* other string and an absent status land in other.
C3_StatusClassification ==
  Classified =>
    /\ ret.v \in StatusNames
    /\ ret.v = ExpectedStatus(arg)

C3_Witness ==
  /\ Classified
  /\ arg = Text(<<"T", "i", "m", "e", "d", " ", "O", "u", "t">>)
  /\ ret.v = "abandoned"

IsJsNumber(value) == value.t = "num"

\* the volume the gateway meta reports: total_volume when numeric, else
\* total_volume_in_minor
GatewayVolume(meta) ==
  IF IsJsNumber(Field(meta, "total_volume")) THEN Field(meta, "total_volume")
  ELSE Field(meta, "total_volume_in_minor")

\* C4: in the envelope path, when the gateway meta carries a numeric volume
\* (total_volume or total_volume_in_minor), meta.totalVolume equals it,
\* whatever the amounts of the entries are.
C4_GatewayVolumeWins ==
  (/\ Normalized
   /\ IsEnvelopeInput(arg)
   /\ IsJsNumber(GatewayVolume(Field(arg, "meta")))) =>
    /\ ret.t = "result"
    /\ ret.meta.totalVolume = GatewayVolume(Field(arg, "meta"))

\* no volume field is present in the meta object or at the top level
NoGatewayVolume(value) ==
  /\ Absent(Field(value, "total_volume"))
  /\ Absent(Field(value, "total_volume_in_minor"))
  /\ Absent(Field(Field(value, "meta"), "total_volume"))
  /\ Absent(Field(Field(value, "meta"), "total_volume_in_minor"))

RECURSIVE AmountTotal(_, _)
AmountTotal(txns, n) ==
  IF n = 0 THEN 0
  ELSE AmountTotal(txns, n - 1)
       + (IF txns[n].v.amount.t = "num" THEN txns[n].v.amount.v ELSE 0)

\* C5: when the gateway reports no volume, meta.totalVolume is the sum of
\* the amounts of the normalized transactions if that sum is above zero, and
\* is absent (never 0) otherwise; amounts 500 and 300 give 800.
C5_DerivedVolume ==
  (Normalized /\ ret.t = "result" /\ NoGatewayVolume(arg)) =>
    LET sum == AmountTotal(ret.transactions, Len(ret.transactions)) IN
      /\ sum > 0 => ret.meta.totalVolume = Num(sum)
      /\ sum <= 0 => ret.meta.totalVolume = Undef
      /\ (/\ Len(ret.transactions) = 2
          /\ ret.transactions[1].v.amount = Num(500)
          /\ ret.transactions[2].v.amount = Num(300)) =>
           ret.meta.totalVolume = Num(800)

\* a batch whose amounts are all 0 came back without a total volume
C5_Witness ==
  /\ Normalized
  /\ arg = Obj([data |-> Arr(<<Obj([amount |-> Num(0)]), Obj([amount |-> Num(0)])>>),
                meta |-> Undef])
  /\ Len(ret.transactions) = 2
  /\ ret.transactions[1].v.amount = Num(0)
  /\ ret.meta.totalVolume = Undef

\* a JavaScript object: a mapping or an array
IsJsObject(value) == value.t \in {"obj", "arr"}

NonBlankString(value) ==
  /\ value.t = "str"
  /\ \E i \in 1..Len(value.v) : value.v[i] \notin WhiteSpace

\* the nested customer sub-object: customer, customer_data, customerDetails,
\* in that order
CustomerOf(entry) ==
  IF IsJsObject(Field(entry, "customer")) THEN Field(entry, "customer")
  ELSE IF IsJsObject(Field(entry, "customer_data")) THEN Field(entry, "customer_data")
  ELSE Field(entry, "customerDetails")

\* a name part: the field of the entry itself when the entry has it, else
\* the field of the nested customer; present when it is a non-blank string
NamePart(entry, key) ==
  LET own == Field(entry, key)
      value == IF Absent(own) THEN Field(CustomerOf(entry), key) ELSE own
  IN IF NonBlankString(value) THEN value ELSE Undef

AllMappings(entries) == \A i \in 1..Len(entries) : IsMapping(entries[i])

TrimmedOrUndef(value) == IF NonBlankString(value) THEN Str(Trim(value.v)) ELSE Undef

\* the text of one log.errors element that is a mapping: its first non-blank
\* message, detail or description
ErrorTextOf(error) ==
  IF ~IsMapping(error) THEN Undef
  ELSE IF NonBlankString(Field(error, "message")) THEN TrimmedOrUndef(Field(error, "message"))
  ELSE IF NonBlankString(Field(error, "detail")) THEN TrimmedOrUndef(Field(error, "detail"))
  ELSE TrimmedOrUndef(Field(error, "description"))

FirstIndex(S) == CHOOSE i \in S : \A j \in S : i <= j

\* the failure reasons the log structure allows: a plain string of
\* log.errors (as written or trimmed), else the text of the first mapping
\* that has one, else log.message
LogReasons(log) ==
  LET errors == Field(log, "errors")
      plain == IF errors.t = "arr"
                 THEN {i \in 1..Len(errors.v) : NonBlankString(errors.v[i])} ELSE {}
      texts == IF errors.t = "arr"
                 THEN {i \in 1..Len(errors.v) : ErrorTextOf(errors.v[i]) # Undef} ELSE {}
  IN IF plain # {}
       THEN {errors.v[FirstIndex(plain)], TrimmedOrUndef(errors.v[FirstIndex(plain)])}
     ELSE IF texts # {} THEN {ErrorTextOf(errors.v[FirstIndex(texts)])}
     ELSE {TrimmedOrUndef(Field(log, "message"))}

NoDirectReason(entry) ==
  \A key \in {"gateway_response", "gatewayResponse", "failure_reason", "failureReason",
              "reason", "status_reason"} : Absent(Field(entry, key))

\* C7: for an entry with no gateway response, failure_reason/failureReason,
\* reason or status_reason, failureReason comes from log: a plain string of
\* log.errors is preferred; otherwise the first element that is a mapping
\* with a non-blank message, detail or description supplies the text;
\* otherwise log.message is used.
C7_ReasonFromLog ==
  (Normalized /\ IsEnvelopeInput(arg) /\ AllMappings(arg.v.data.v)) =>
    /\ ret.t = "result"
    /\ Len(ret.transactions) = Len(arg.v.data.v)
    /\ \A i \in 1..Len(arg.v.data.v) :
         NoDirectReason(arg.v.data.v[i]) =>
           ret.transactions[i].v.failureReason \in LogReasons(Field(arg.v.data.v[i], "log"))

ProbeOrder == <<"transactions", "data", "items", "records", "results">>

\* the input is no array and none of its candidate keys holds an array
NoArrayLocated(value) ==
  /\ value.t # "arr"
  /\ \A i \in 1..Len(ProbeOrder) : Field(value, ProbeOrder[i]).t # "arr"

NoAggregateFields(value) ==
  \A key \in {"meta", "total", "total_volume", "currency"} : Absent(Field(value, key))

\* C8: when no array of entries can be located the result is the empty
\* sequence and no error; if the input carries no aggregate fields either,
\* meta.total is 0 and meta.totalVolume and meta.currency are absent.
C8_EmptyFallback ==
  (Normalized /\ NoArrayLocated(arg)) =>
    /\ ret.t = "result"
    /\ ret.transactions = <<>>
    /\ NoAggregateFields(arg) =>
         /\ ret.meta.total = Num(0)
         /\ ret.meta.totalVolume = Undef
         /\ ret.meta.currency = Undef

C8_Witness ==
  /\ Normalized
  /\ arg = EmptyObject
  /\ ret.t = "result"
  /\ ret.transactions = <<>>
  /\ ret.meta.total = Num(0)

\* the envelope reduced to data, meta and message
OnlyEnvelopeFields(value) ==
  Obj([data |-> value.v.data, meta |-> Field(value, "meta"),
       message |-> Field(value, "message")])

\* C9: when the input is an object whose data is an array, the entries are
\* those of data, even if transactions, items, records or results hold
\* arrays too, and the aggregates depend on the sibling meta and message
\* only, never on top-level total, total_volume or currency.
C9_EnvelopePrecedence ==
  (Normalized /\ IsEnvelopeInput(arg)) =>
    /\ ret.t = "result"
    /\ ret.transactions = NormalizeEntries(arg.v.data.v).v
    /\ ret = normalizeTransactionsFromOutput(OnlyEnvelopeFields(arg))
    /\ Absent(Field(arg, "meta")) =>
         /\ ret.meta.total = Num(Len(ret.transactions))
         /\ ret.meta.totalVolume \notin {Field(arg, "total_volume")} \ {Undef}
         /\ ret.meta.currency \notin {Field(arg, "currency")} \ {Undef}

C9_Witness ==
  /\ Normalized
  /\ IsEnvelopeInput(arg)
  /\ Field(arg, "transactions") = Tagged(<<"T">>)
  /\ Field(arg, "data") = Tagged(<<"D">>)
  /\ Field(arg, "total") = Num(99)
  /\ Field(arg, "currency") = Text(cTOP)
  /\ Absent(Field(arg, "meta"))
  /\ Len(ret.transactions) = 1
  /\ ret.transactions[1].v.id = Text(<<"D">>)
  /\ ret.meta.total = Num(1)
  /\ ret.meta.currency = Undef

\* the entry list of an input that is no envelope: the input itself when it
\* is an array, else the value of the first key, in probe order, that holds
\* an array
ProbedList(value) ==
  IF value.t = "arr" THEN value.v
  ELSE LET hits == {i \in 1..Len(ProbeOrder) : Field(value, ProbeOrder[i]).t = "arr"} IN
         IF hits = {} THEN <<>> ELSE Field(value, ProbeOrder[FirstIndex(hits)]).v

\* C10: for an input that is no envelope, a bare array is the entry list;
\* for an object the keys transactions, data, items, records, results are
\* probed in that order and the entries come from the first key holding an
\* array, a non-array under an earlier key being skipped.
C10_ProbeOrder ==
  (Normalized /\ ~IsEnvelopeInput(arg)) =>
    /\ ret.t = "result"
    /\ ret.transactions = NormalizeEntries(ProbedList(arg)).v

C10_Witness ==
  /\ Normalized
  /\ ~IsEnvelopeInput(arg)
  /\ Field(arg, "transactions") = Text(cAbc)
  /\ Field(arg, "data") = EmptyObject
  /\ Field(arg, "items") = Tagged(<<"I">>)
  /\ Field(arg, "results") = Tagged(<<"S">>)
  /\ Len(ret.transactions) = 1
  /\ ret.transactions[1].v.id = Text(<<"I">>)

\* the entry list of any input: data of an envelope, else the probed list
SourceList(value) == IF IsEnvelopeInput(value) THEN value.v.data.v ELSE ProbedList(value)

\* C11: order is preserved: the transactions of two mapping entries a before
\* b of the source list stand in the same order in the output, and dropped
\* entries do not reorder the rest.
C11_OrderPreserved ==
  Normalized =>
    /\ ret.t = "result"
    /\ LET src == SourceList(arg)
           out == ret.transactions
           mappings == {i \in 1..Len(src) : IsMapping(src[i])}
       IN \E pos \in [mappings -> 1..Len(out)] :
            /\ \A i, j \in mappings : i < j => pos[i] < pos[j]
            /\ \A i \in mappings : out[pos[i]] = normalizeTransaction(src[i])

\* two mappings around a dropped entry came out in source order
C11_Witness ==
  /\ Normalized
  /\ arg = Arr(<<Obj([id |-> Text(<<"2">>), currency |-> Text(cNGN)]), Null,
                 Obj([id |-> Text(<<"1">>), currency |-> Text(cNGN)])>>)
  /\ Len(ret.transactions) = 2
  /\ ret.transactions[1].v.id = Text(<<"2">>)
  /\ ret.transactions[2].v.id = Text(<<"1">>)

\* a finite number, or a non-blank string that parses to one
IsNumeric(value) ==
  \/ value.t = "num"
  \/ NonBlankString(value) /\ StringToNumber(value.v).t = "num"

NumericValue(value) == IF value.t = "num" THEN value ELSE StringToNumber(value.v)

\* the aggregate the gateway reports under a key: the field of the sibling
\* meta object; for an input that is no envelope, the top-level field when
\* meta has none
GatewayField(value, key) ==
  IF IsEnvelopeInput(value) \/ ~Absent(Field(Field(value, "meta"), key))
    THEN Field(Field(value, "meta"), key)
    ELSE Field(value, key)

\* C12: meta.total is always present: the gateway-reported total when that
\* is numeric, otherwise the number of normalized transactions.
C12_TotalPresent ==
  Normalized =>
    /\ ret.t = "result"
    /\ ret.meta.total.t = "num"
    /\ LET total == GatewayField(arg, "total") IN
         IF IsNumeric(total) THEN ret.meta.total = NumericValue(total)
         ELSE ret.meta.total = Num(Len(ret.transactions))

\* a reported total of 0 is kept although one transaction was normalized
C12_Witness ==
  /\ Normalized
  /\ arg = Obj([data |-> Arr(<<Obj([id |-> Text(<<"1">>)]), Null>>),
                meta |-> Obj([total |-> Num(0)])])
  /\ Len(ret.transactions) = 1
  /\ ret.meta.total = Num(0)

\* C13: meta.currency is the gateway-reported currency if present; otherwise
\* the currency of the first transaction, in output order, that has one
\* (even when another currency is more frequent); it is absent only when
\* neither exists.
C13_CurrencyFirstWins ==
  Normalized =>
    /\ ret.t = "result"
    /\ LET reported == GatewayField(arg, "currency")
           out == ret.transactions
           having == {i \in 1..Len(out) : out[i].v.currency # Undef}
       IN IF NonBlankString(reported) THEN ret.meta.currency = Str(Trim(reported.v))
          ELSE IF having # {} THEN ret.meta.currency = out[FirstIndex(having)].v.currency
          ELSE ret.meta.currency = Undef

\* one USD entry before two NGN entries: USD
C13_Witness ==
  /\ Normalized
  /\ arg = Obj([data |-> Arr(<<Obj([id |-> Text(<<"3">>), currency |-> Text(cUSD)]),
                               Obj([id |-> Text(<<"1">>), currency |-> Text(cNGN)]),
                               Obj([id |-> Text(<<"2">>), currency |-> Text(cNGN)])>>)])
  /\ ret.meta.currency = Text(cUSD)

Formatted == pc = "done" /\ fn = "formatCurrencyAmount"

Contains(s, sub) ==
  \E i \in 1..(Len(s) - Len(sub) + 1) : SubSeq(s, i, i + Len(sub) - 1) = sub

\* C14: formatCurrencyAmount never fails outward: for every number and every
\* currency argument it returns a string; when currency-aware formatting
\* raises, the result is "<CODE> <number>" and contains the supplied code;
\* when no currency is supplied, decimal formatting is used.
C14_FormatNeverFails ==
  Formatted =>
    /\ ret.t = "str"
    /\ arg.intlRaises =>
         /\ ret = Str(arg.currency.v \o <<" ">> \o LocaleString(arg.value))
         /\ Contains(ret.v, arg.currency.v)
    /\ (arg.currency = Undef \/ arg.currency = Text(<<>>)) =>
         ret = IntlFormat("decimal", Undef, arg.value)

\* a malformed code made the constructor raise and the fallback came back
C14_Witness ==
  /\ Formatted
  /\ arg.currency = Text(<<"U", "S", "D", "X">>)
  /\ arg.value = Num(42)
  /\ arg.intlRaises
  /\ ret = Text(<<"U", "S", "D", "X", " ", "4", "2">>)

\* a string that is non-empty and neither starts nor ends with whitespace
IsTrimmedText(value) ==
  /\ value.t = "str"
  /\ Len(value.v) > 0
  /\ value.v[1] \notin WhiteSpace
  /\ value.v[Len(value.v)] \notin WhiteSpace

TransactionStringFields ==
  {"rawStatus", "customerName", "customerEmail", "failureReason",
   "gatewayResponse", "currency", "createdAt"}

\* C15: blank-trim invariant: in every result each string field that is
\* present (rawStatus, customerName, customerEmail, failureReason,
\* gatewayResponse, currency, createdAt of a transaction; currency and message
\* of meta) is non-empty and has no leading or trailing whitespace, text
\* taken from log.errors included.
C15_BlankTrim ==
  (Normalized /\ ret.t = "result") =>
    /\ \A i \in 1..Len(ret.transactions) : \A f \in TransactionStringFields :
         ret.transactions[i].v[f] # Undef => IsTrimmedText(ret.transactions[i].v[f])
    /\ ret.meta.currency # Undef => IsTrimmedText(ret.meta.currency)
    /\ ret.meta.message # Undef => IsTrimmedText(ret.meta.message)

StatusKeys == <<"status", "state", "current_status">>

\* raw is text with its upper-case letters lower-cased
IsLowerCased(raw, text) ==
  /\ SameWord(text, raw)
  /\ \A i \in 1..Len(raw) : raw[i] \notin DOMAIN UpperToLower

\* C16: every output transaction has a status in {success, failed,
\* abandoned, other}; rawStatus, when present, is the lower-cased status
\* token (one of the entry's status, state, current_status strings, trimmed)
\* and status is the classification of rawStatus; when no status token is
\* found, rawStatus is absent and status is other.
C16_StatusAndRawStatus ==
  (Normalized /\ ret.t = "result") =>
    /\ \A i \in 1..Len(ret.transactions) :
         LET tx == ret.transactions[i].v
         IN /\ tx.status \in StatusNames
            /\ tx.rawStatus # Undef =>
                 /\ tx.rawStatus.t = "str"
                 /\ IsLowerCased(tx.rawStatus.v, tx.rawStatus.v)
                 /\ tx.status = ExpectedStatus(tx.rawStatus)
            /\ tx.rawStatus = Undef => tx.status = "other"
    /\ (IsEnvelopeInput(arg) /\ AllMappings(arg.v.data.v)) =>
         /\ Len(ret.transactions) = Len(arg.v.data.v)
         /\ \A i \in 1..Len(arg.v.data.v) :
              LET entry == arg.v.data.v[i]
                  raw == ret.transactions[i].v.rawStatus
                  tokens == {k \in 1..3 : NonBlankString(Field(entry, StatusKeys[k]))}
              IN IF tokens = {} THEN raw = Undef
                 ELSE raw # Undef =>
                        \E k \in tokens :
                          IsLowerCased(raw.v, Trim(Field(entry, StatusKeys[k]).v))

\* an upper-case status came back lower-cased and classified
C16_Witness ==
  /\ Normalized
  /\ arg = Single(Obj([status |-> Text(cABANDONED), state |-> Undef,
                       current_status |-> Undef]))
  /\ ret.t = "result"
  /\ ret.transactions[1].v.rawStatus = Text(ToLowerCase(cABANDONED))
  /\ ret.transactions[1].v.status = "abandoned"

\* C19: the status token of an entry is the first non-empty candidate in the
\* order status, state, current_status: a missing, empty, whitespace-only or
\* non-string status does not stop the search, and the transaction is
\* classified from the first candidate that holds a non-empty string.
C19_StatusTokenOrder ==
  (Normalized /\ IsEnvelopeInput(arg) /\ AllMappings(arg.v.data.v)) =>
    /\ ret.t = "result"
    /\ Len(ret.transactions) = Len(arg.v.data.v)
    /\ \A i \in 1..Len(arg.v.data.v) :
         LET entry == arg.v.data.v[i]
             tokens == {k \in 1..3 : NonBlankString(Field(entry, StatusKeys[k]))}
         IN tokens # {} =>
              LET token == Str(Trim(Field(entry, StatusKeys[FirstIndex(tokens)]).v))
              IN /\ ret.transactions[i].v.status = ExpectedStatus(token)
                 /\ ret.transactions[i].v.rawStatus # Undef
                 /\ IsLowerCased(ret.transactions[i].v.rawStatus.v, token.v)

SingleNameKeys == <<"customer_name", "customerName", "name">>

\* the single-name candidates in their order: nested customer.name first
SingleName(entry, k) ==
  IF k = 1 THEN Field(CustomerOf(entry), "name") ELSE Field(entry, SingleNameKeys[k - 1])

\* C20: when an entry has neither a first nor a last name part, customerName
\* is the first non-empty of nested customer.name, customer_name,
\* customerName, name; if all are absent or blank it is
\* authorization.account_name; if that is absent or blank too, customerName
\* is absent.
C20_SingleNameFallback ==
  (Normalized /\ IsEnvelopeInput(arg) /\ AllMappings(arg.v.data.v)) =>
    /\ ret.t = "result"
    /\ Len(ret.transactions) = Len(arg.v.data.v)
    /\ \A i \in 1..Len(arg.v.data.v) :
         LET entry == arg.v.data.v[i]
             names == {k \in 1..4 : NonBlankString(SingleName(entry, k))}
             account == Field(Field(entry, "authorization"), "account_name")
         IN (NamePart(entry, "first_name") = Undef /\ NamePart(entry, "last_name") = Undef) =>
              ret.transactions[i].v.customerName =
                IF names # {} THEN TrimmedOrUndef(SingleName(entry, FirstIndex(names)))
                ELSE TrimmedOrUndef(account)

\* the tracing call was made by the catch block or callback who
Called(who, what) == \E i \in 1..Len(trail) : trail[i] = <<who, what>>

\* every call of later by who comes after a call of earlier by who
Precedes(who, earlier, later) ==
  \A j \in 1..Len(trail) :
    trail[j] = <<who, later>> => \E i \in 1..(j - 1) : trail[i] = <<who, earlier>>

\* the way of ending a request that runs who is over
Ended(who) ==
  \/ who = "catch" /\ handler = "thrown"
  \/ who = "onFinish" /\ stream = "finished"
  \/ who = "onError" /\ stream = "errored"

\* C18: on every way a chat request ends (model stream finished, stream
\* error, exception thrown while handling the request) the active tracing
\* span is ended and, when the Langfuse span processor is configured, its
\* forceFlush is called after the span is ended; the exception is re-thrown
\* only after that flush has completed.
C18_SpanEndedThenFlushed ==
  \A who \in {"catch", "onFinish", "onError"} :
    /\ Ended(who) =>
         /\ activeSpan => Called(who, "end")
         /\ configured => Called(who, "flush")
    /\ activeSpan => Precedes(who, "end", "flush") /\ Precedes(who, "end", "rethrow")
    /\ configured => Precedes(who, "flush", "flushed") /\ Precedes(who, "flushed", "rethrow")

\* toUIMessageStreamResponse threw after the stream had started: the catch
\* block ended the span, flushed and rethrew, and the stream finished with
\* its own end and flush
C18_Witness ==
  /\ configured
  /\ activeSpan
  /\ handler = "thrown"
  /\ stream = "finished"
  /\ Called("catch", "rethrow")
  /\ Called("onFinish", "flushed")

\* the email candidates of an entry in their order
EmailCandidate(entry, k) ==
  IF k = 1 THEN Field(CustomerOf(entry), "email")
  ELSE IF k = 2 THEN Field(entry, "customer_email")
  ELSE IF k = 3 THEN Field(entry, "email")
  ELSE IF k = 4 THEN Field(entry, "customerEmail")
  ELSE IF k = 5 THEN Field(Field(entry, "authorization"), "email")
  ELSE Field(Field(entry, "metadata"), "email")

\* C21: customerEmail is the first non-empty candidate in the order: email
\* of the nested customer sub-object, entry-level customer_email, email,
\* customerEmail, authorization.email, metadata.email; a blank or non-string
\* candidate never stops the search for a later non-empty one.
C21_EmailOrder ==
  (Normalized /\ IsEnvelopeInput(arg) /\ AllMappings(arg.v.data.v)) =>
    /\ ret.t = "result"
    /\ Len(ret.transactions) = Len(arg.v.data.v)
    /\ \A i \in 1..Len(arg.v.data.v) :
         LET entry == arg.v.data.v[i]
             found == {k \in 1..6 : NonBlankString(EmailCandidate(entry, k))}
         IN ret.transactions[i].v.customerEmail =
              IF found = {} THEN Undef
              ELSE TrimmedOrUndef(EmailCandidate(entry, FirstIndex(found)))

ReasonKeys ==
  <<"gateway_response", "gatewayResponse", "failure_reason", "failureReason",
    "reason", "status_reason">>

\* C22: failureReason is resolved in the order gateway response text,
\* failure_reason/failureReason, reason/status_reason, the log structure:
\* whenever gatewayResponse is present in an output transaction,
\* failureReason equals it, and failureReason is absent only when every
\* source in the chain is absent or blank.
C22_ReasonChain ==
  (Normalized /\ IsEnvelopeInput(arg) /\ AllMappings(arg.v.data.v)) =>
    /\ ret.t = "result"
    /\ Len(ret.transactions) = Len(arg.v.data.v)
    /\ \A i \in 1..Len(arg.v.data.v) :
         LET entry == arg.v.data.v[i]
             tx == ret.transactions[i].v
         IN /\ tx.gatewayResponse # Undef => tx.failureReason = tx.gatewayResponse
            /\ tx.failureReason = Undef =>
                 /\ \A k \in 1..6 : ~NonBlankString(Field(entry, ReasonKeys[k]))
                 /\ ~NonBlankString(Field(Field(entry, "log"), "message"))

IdKeys == <<"id", "reference", "transaction_id", "transactionId">>

\* the value a chain of names resolves to: that of the first name the entry
\* has, undefined when it has none
Resolved(entry, keys) ==
  LET present == {k \in 1..Len(keys) : ~Absent(Field(entry, keys[k]))}
  IN IF present = {} THEN Undef ELSE Field(entry, keys[FirstIndex(present)])

\* text is the decimal form of the integer n
IsDecimalOf(text, n) ==
  LET digits == IF n < 0 THEN Tail(text) ELSE text
  IN /\ Len(text) > 0
     /\ (n < 0) = (Head(text) = "-")
     /\ AllDigits(digits)
     /\ (Len(digits) > 1 => Head(digits) # "0")
     /\ DigitsVal(digits) = (IF n < 0 THEN 0 - n ELSE n)

\* C23: the id of a transaction is resolved in the order id, reference,
\* transaction_id, transactionId: a string is output as it is, a number as
\* its string form (42 gives "42"), a value of any other type yields no id,
\* and id is absent when none of the four fields is present.
C23_IdResolution ==
  (Normalized /\ IsEnvelopeInput(arg) /\ AllMappings(arg.v.data.v)) =>
    /\ ret.t = "result"
    /\ Len(ret.transactions) = Len(arg.v.data.v)
    /\ \A i \in 1..Len(arg.v.data.v) :
         LET value == Resolved(arg.v.data.v[i], IdKeys)
             id == ret.transactions[i].v.id
         IN /\ value.t = "str" => id = value
            /\ value.t = "num" => id.t = "str" /\ IsDecimalOf(id.v, value.v)
            /\ value.t = "nan" => id = Text(<<"N", "a", "N">>)
            /\ value.t \in {"undefined", "bool", "obj", "arr"} => id = Undef

\* the number 42 came out as the string "42"
C23_Witness ==
  /\ Normalized
  /\ arg = Single(Obj([id |-> Num(42), reference |-> Text(<<"r">>),
                       transaction_id |-> Undef, transactionId |-> Undef]))
  /\ ret.t = "result"
  /\ ret.transactions[1].v.id = Text(<<"4", "2">>)

AmountKeys == <<"amount", "amount_in_minor">>

\* C24: the amount of a transaction is resolved in the order amount,
\* amount_in_minor and is present only when the value is a finite number or
\* a string that parses to a finite number; a non-numeric, non-finite, blank
\* or missing amount is absent and never 0, while a genuine 0 is 0.
C24_AmountResolution ==
  (Normalized /\ IsEnvelopeInput(arg) /\ AllMappings(arg.v.data.v)) =>
    /\ ret.t = "result"
    /\ Len(ret.transactions) = Len(arg.v.data.v)
    /\ \A i \in 1..Len(arg.v.data.v) :
         LET value == Resolved(arg.v.data.v[i], AmountKeys)
             amount == ret.transactions[i].v.amount
         IN /\ amount.t \in {"undefined", "num"}
            /\ amount = (IF IsNumeric(value) THEN NumericValue(value) ELSE Undef)
            /\ amount = Num(0) => value \in {Num(0), Text(<<"0">>)}

\* an empty amount string was reported as absent, not as 0, although the
\* entry also has amount_in_minor
C24_Witness ==
  /\ Normalized
  /\ arg = Single(Obj([amount |-> Text(<<>>), amount_in_minor |-> Num(40)]))
  /\ ret.t = "result"
  /\ ret.transactions[1].v.amount = Undef

\* the number a gateway field passes through: itself when numeric, absent
\* otherwise
PassedThrough(value) == IF IsNumeric(value) THEN NumericValue(value) ELSE Undef

\* C25: pagination fields are passed through only for the envelope shape:
\* there meta.page, meta.perPage and meta.pageCount equal the numeric page,
\* per_page and page_count of the gateway meta and are absent when it omits
\* them; for any other input the three are absent whatever it contains.
C25_PaginationEnvelopeOnly ==
  Normalized =>
    /\ ret.t = "result"
    /\ IF IsEnvelopeInput(arg)
         THEN /\ ret.meta.page = PassedThrough(Field(Field(arg, "meta"), "page"))
              /\ ret.meta.perPage = PassedThrough(Field(Field(arg, "meta"), "per_page"))
              /\ ret.meta.pageCount = PassedThrough(Field(Field(arg, "meta"), "page_count"))
         ELSE /\ ret.meta.page = Undef
              /\ ret.meta.perPage = Undef
              /\ ret.meta.pageCount = Undef

\* a list under transactions with pagination in meta and at top level: the
\* transaction is found and no pagination comes out
C25_Witness ==
  /\ Normalized
  /\ arg = Obj([transactions |-> Arr(<<Obj([id |-> Text(<<"1">>)])>>),
                meta |-> Obj([page |-> Num(2), per_page |-> Num(50),
                              page_count |-> Num(4)]),
                page |-> Num(3), per_page |-> Num(20), page_count |-> Num(6)])
  /\ ret.t = "result"
  /\ Len(ret.transactions) = 1
  /\ ret.meta.page = Undef
  /\ ret.meta.perPage = Undef
  /\ ret.meta.pageCount = Undef

SummaryNormalized == pc = "done" /\ fn = "summary.normalizeTransactionsFromOutput"

ComparedFields ==
  {"id", "status", "rawStatus", "customerName", "customerEmail", "failureReason",
   "amount", "currency", "createdAt"}

ComparedMeta == {"total", "totalVolume", "currency", "message"}

\* C26: the duplicated copies of the normalizer agree: for every input the
\* library's normalizeTransactionsFromOutput and the copy embedded in the
\* summary component return the same number of transactions, the same id,
\* status, rawStatus, customerName, customerEmail, failureReason, amount,
\* currency and createdAt of each, and the same meta total, totalVolume,
\* currency and message.
C26_CopiesAgree ==
  SummaryNormalized =>
    LET library == normalizeTransactionsFromOutput(arg) IN
      /\ ret.t = library.t
      /\ ret.t = "result" =>
           /\ Len(ret.transactions) = Len(library.transactions)
           /\ \A i \in 1..Len(ret.transactions) : \A f \in ComparedFields :
                ret.transactions[i].v[f] = library.transactions[i].v[f]
           /\ \A f \in ComparedMeta : ret.meta[f] = library.meta[f]

Summarized == pc = "done" /\ fn = "summarizeCustomers"

RECURSIVE SumCounts(_)
SumCounts(groups) ==
  IF groups = <<>> THEN 0 ELSE Head(groups).count + SumCounts(Tail(groups))

\* C27: summarizeCustomers accounts for every transaction exactly once: the
\* counts of all customer groups add up to the number of transactions given
\* (totalUnique is at least 1 for a non-empty batch and at most the batch
\* size), whatever fields the transactions lack and wherever they stand; the
\* displayed list holds at most 5 groups in non-increasing order of count.
C27_EveryTransactionCounted ==
  Summarized =>
    /\ SumCounts(ret.map) = Len(arg.v)
    /\ ret.totalUnique = Len(ret.map)
    /\ Len(arg.v) > 0 => ret.totalUnique >= 1
    /\ ret.totalUnique <= Len(arg.v)
    /\ Len(ret.list) <= 5
    /\ \A i \in 1..(Len(ret.list) - 1) : ret.list[i].count >= ret.list[i + 1].count

Fetched == pc = "done" /\ fn = "fetchTransactions"

\* the message string a gateway body carries, if any
GatewayMessage(body) ==
  IF body # InvalidJson /\ IsMapping(body) /\ Field(body, "message").t = "str"
       /\ Field(body, "message").v # <<>>
    THEN Field(body, "message") ELSE Undef

HasNoMessage(body) ==
  \/ body = InvalidJson
  \/ ~IsMapping(body)
  \/ Field(body, "message").t = "undefined"
  \/ Field(body, "message") = Text(<<>>)

\* C28: fetchTransactions fails before any network request when PAYSTACK_JWT
\* is not configured; after a request, a non-ok response always raises an
\* error (carrying the gateway's message, else "Unable to fetch
\* transactions") even when the body is not valid JSON; a result is returned
\* only for an ok response whose body passes the response schema, and then
\* normalized is exactly the normalization of raw.
C28_FetchOutcomes ==
  /\ (fn = "fetchTransactions" /\ ~Truthy(arg.token)) =>
       /\ pc = "done"
       /\ arg.requests = 0
       /\ ret = Error(Str(cNotConfigured))
  /\ (Fetched /\ arg.response # Undef /\ ~arg.response.ok) =>
       /\ ret.t = "error"
       /\ ret.message.t = "str" /\ ret.message.v # <<>>
       /\ GatewayMessage(arg.response.body) # Undef =>
            ret.message = GatewayMessage(arg.response.body)
       /\ HasNoMessage(arg.response.body) => ret.message = Str(cUnableToFetch)
  /\ (Fetched /\ ret.t = "fetched") =>
       /\ arg.requests = 1
       /\ arg.response.ok
       /\ arg.response.body # InvalidJson
       /\ SchemaAccepts(arg.response.body)
       /\ ret.normalized = normalizeTransactionsFromOutput(ret.raw)
  /\ (Fetched /\ ret.t # "fetched") => ret.t = "error"

\* a response that is not ok and whose body is no JSON raised the default
\* message
C28_Witness ==
  /\ Fetched
  /\ arg.requests = 1
  /\ arg.response = [t |-> "response", ok |-> FALSE, body |-> InvalidJson]
  /\ ret = Error(Str(cUnableToFetch))

\* a request of message m is under way
InFlight(m) == panel.call[m].at \in {"fetching", "responded", "reading"}

\* a click without a trace id sent no request and changed no feedback state
UntracedClickChangesNothing ==
  (panel'.clicks # panel.clicks /\ ~Truthy(panel'.last.traceId)) =>
    /\ panel'.sent = panel.sent
    /\ panel'.pendingFeedback = panel.pendingFeedback
    /\ panel'.feedbackByMessage = panel.feedbackByMessage
    /\ panel'.call = panel.call

\* a click with a trace id marked its message pending and sent one request
TracedClickMarksPending ==
  (panel'.clicks # panel.clicks /\ Truthy(panel'.last.traceId)) =>
    /\ panel'.sent = panel.sent + 1
    /\ panel'.pendingFeedback[panel'.last.message] = Bool(TRUE)

\* the recorded rating changes only on an ok response, to the rating sent
RatingOnlyAfterOk ==
  \A m \in Messages :
    panel'.feedbackByMessage[m] # panel.feedbackByMessage[m] =>
      /\ panel.call[m].at = "responded"
      /\ panel.call[m].ok
      /\ panel'.feedbackByMessage[m] = panel.call[m].rating

\* C29: helpfulness feedback: a submission without a trace id sends no
\* request and changes no state; otherwise the message is pending from
\* before the request is sent and, on every outcome (ok response, non-ok
\* response, network failure), pending for that message is eventually false
\* again; the recorded rating changes only after an ok response and then
\* equals the rating that was submitted.
C29_HelpfulnessFeedback ==
  /\ [](\A m \in Messages : InFlight(m) => panel.pendingFeedback[m] = Bool(TRUE))
  /\ [][UntracedClickChangesNothing /\ TracedClickMarksPending /\ RatingOnlyAfterOk]_vars
  /\ \A m \in Messages :
       (panel.pendingFeedback[m] = Bool(TRUE)) ~> (panel.pendingFeedback[m] = Bool(FALSE))

\* a thumbs-down of message 1 was recorded after an ok response, an untraced
\* click came last, and nothing is pending
C29_Witness ==
  /\ panel.feedbackByMessage[1] = "down"
  /\ panel.pendingFeedback[1] = Bool(FALSE)
  /\ panel.sent = 1
  /\ panel.clicks = 2
  /\ ~Truthy(panel.last.traceId)

\* the loader has returned
Loaded == pc = "done" /\ fn = "loader"

\* year, month and day as a date string writes them
DateFields(s) ==
  <<DigitsVal(SubSeq(s, 1, 4)), DigitsVal(SubSeq(s, 6, 7)), DigitsVal(SubSeq(s, 9, 10))>>

\* date string a is after date string b: a later year, or the same year and
\* a later month, or the same month and a later day
After(a, b) ==
  LET x == DateFields(a)
      y == DateFields(b)
  IN \/ x[1] > y[1]
     \/ x[1] = y[1] /\ x[2] > y[2]
     \/ x[1] = y[1] /\ x[2] = y[2] /\ x[3] > y[3]

\* the request gave both dates, the filters were accepted, and from is after to
RequestReversed ==
  /\ FiltersAccepted(arg.raw)
  /\ Truthy(arg.raw.from) /\ Truthy(arg.raw.to)
  /\ After(arg.raw.from.v, arg.raw.to.v)

\* a fetch failure ends in a 500 response that carries the message
FailureReported ==
  (Loaded /\ arg.outcome.t # "fetched") =>
    /\ ret.t = "response"
    /\ ret.status = 500
    /\ ret.transactions = <<>>
    /\ ret.meta = EmptyMeta
    /\ ret.error = arg.outcome.message
    /\ ret.assistantContext.summary = Str(cLatestFetchFailed \o arg.outcome.message.v)

\* a fetch that succeeded leaves error null
SuccessHasNoError ==
  (Loaded /\ arg.outcome.t = "fetched") => ret.t = "response" /\ ret.error = Null

\* the returned filters are in order, and a reversed request was swapped
FiltersChronological ==
  Loaded =>
    /\ ~After(ret.filters.from.v, ret.filters.to.v)
    /\ RequestReversed =>
         /\ NewDate(ret.filters.from.v) = NewDate(arg.raw.to.v)
         /\ NewDate(ret.filters.to.v) = NewDate(arg.raw.from.v)

\* C30: the transactions page loader never propagates a fetch failure: when
\* fetchTransactions raises, it returns status 500 with an empty
\* transactions list, an empty meta, the error message and an assistant
\* context whose summary reports the failure; on success error is null; in
\* both cases the returned filters are in chronological order (from not
\* after to), the two dates swapped when the request had them reversed.
C30_LoaderContract ==
  /\ FailureReported
  /\ SuccessHasNoError
  /\ FiltersChronological

====
